---- MODULE Spec2Model ----
(***************************************************************************)
(* Model of the FTS5-backed memory system of doc-sync:                     *)
(*   DocMemory (doctool.py) and the memory tools of mcp_server.py.         *)
(* Text values are sequences of one-character strings, so that split,      *)
(* strip, join, len and substring tests are computed as Python does.       *)
(***************************************************************************)
EXTENDS Integers, Sequences, FiniteSets, TLC

VARIABLES chunk_meta, chunks_fts, files, now, conns, server

vars == <<chunk_meta, chunks_fts, files, now, conns, server>>

(***************************************************************************)
(* Python string primitives                                                *)
(***************************************************************************)
Rep(c, n) == [i \in 1..n |-> c]

\* characters removed by str.strip() with no argument
Whitespace == {" ", "\n", "\t"}

RECURSIVE lstrip(_, _)
lstrip(s, cs) ==
    IF s # <<>> /\ Head(s) \in cs THEN lstrip(Tail(s), cs) ELSE s

RECURSIVE rstrip(_, _)
rstrip(s, cs) ==
    IF s # <<>> /\ s[Len(s)] \in cs THEN rstrip(SubSeq(s, 1, Len(s) - 1), cs) ELSE s

strip(s) == rstrip(lstrip(s, Whitespace), Whitespace)

\* s.split(sep) for a one-character separator
RECURSIVE split(_, _)
split(s, sep) ==
    IF \A i \in 1..Len(s) : s[i] # sep
    THEN <<s>>
    ELSE LET i == CHOOSE k \in 1..Len(s) :
                      s[k] = sep /\ \A j \in 1..(k - 1) : s[j] # sep
         IN  <<SubSeq(s, 1, i - 1)>> \o split(SubSeq(s, i + 1, Len(s)), sep)

\* sep.join(parts)
RECURSIVE join(_, _)
join(sep, parts) ==
    IF parts = <<>> THEN <<>>
    ELSE IF Len(parts) = 1 THEN parts[1]
    ELSE parts[1] \o sep \o join(sep, Tail(parts))

startswith(s, c) == s # <<>> /\ Head(s) = c

\* needle in hay
contains(hay, needle) ==
    \E i \in 0..(Len(hay) - Len(needle)) :
        SubSeq(hay, i + 1, i + Len(needle)) = needle

UpperCase == <<"A", "B", "C", "D", "E", "F", "G", "H", "I", "J", "K", "L", "M",
               "N", "O", "P", "Q", "R", "S", "T", "U", "V", "W", "X", "Y", "Z">>
LowerCase == <<"a", "b", "c", "d", "e", "f", "g", "h", "i", "j", "k", "l", "m",
               "n", "o", "p", "q", "r", "s", "t", "u", "v", "w", "x", "y", "z">>

LowerOf(c) ==
    IF \E k \in 1..26 : UpperCase[k] = c
    THEN LowerCase[CHOOSE k \in 1..26 : UpperCase[k] = c]
    ELSE c

lower(s) == [i \in 1..Len(s) |-> LowerOf(s[i])]

\* Python slice s[:n] for n >= 0
Prefix(s, n) == SubSeq(s, 1, IF n < Len(s) THEN n ELSE Len(s))

(***************************************************************************)
(* Chunker                                                                 *)
(***************************************************************************)
MinContent == 50

SepPath == <<" ", ">", " ">>
Introduction == <<"I", "n", "t", "r", "o", "d", "u", "c", "t", "i", "o", "n">>
ContentSentinel == <<"C", "o", "n", "t", "e", "n", "t">>

\* the size filter taken at the threshold itself
KeepSectionAtLeast(section_content) ==
    section_content # <<>> /\ Len(section_content) >= MinContent

\* the size filter: `if section_content and len(section_content) > 50`
KeepSection(section_content) ==
    section_content # <<>> /\ Len(section_content) > MinContent

\* flush of the accumulated section: the chunk appended, if any
FlushSection(current_section, current_headings, source, sentinel) ==
    LET section_content == strip(join(<<"\n">>, current_section))
    IN  IF KeepSection(section_content)
        THEN << [content |-> section_content,
                 section |-> IF current_headings # <<>>
                             THEN join(SepPath, current_headings)
                             ELSE sentinel,
                 source  |-> source] >>
        ELSE <<>>

\* `current_headings = current_headings[:level-1]; current_headings.append(heading_text)`
UpdateHeadings(current_headings, line) ==
    LET level        == Len(line) - Len(lstrip(line, {"#"}))
        heading_text == strip(lstrip(line, {"#"}))
    IN  Append(Prefix(current_headings, level - 1), heading_text)

RECURSIVE ChunkLoop(_, _, _, _, _, _)
ChunkLoop(lines, i, chunks, current_section, current_headings, source) ==
    IF i > Len(lines)
    THEN IF current_section # <<>>
         THEN chunks \o FlushSection(current_section, current_headings, source, ContentSentinel)
         ELSE chunks
    ELSE LET line == lines[i]
         IN  IF startswith(line, "#")
             THEN ChunkLoop(lines, i + 1,
                            IF current_section # <<>>
                            THEN chunks \o FlushSection(current_section, current_headings,
                                                        source, Introduction)
                            ELSE chunks,
                            <<line>>,
                            UpdateHeadings(current_headings, line),
                            source)
             ELSE ChunkLoop(lines, i + 1, chunks, Append(current_section, line),
                            current_headings, source)

_chunk_document(content, source) ==
    ChunkLoop(split(content, "\n"), 1, <<>>, <<>>, <<>>, source)

(***************************************************************************)
(* Fingerprint: SHA-256 of the exact content, taken to be collision free   *)
(***************************************************************************)
_hash_content(content) == <<"sha256">> \o content

(***************************************************************************)
(* Inputs: paths, document texts, note texts, tag lists                    *)
(***************************************************************************)
\* None, and every value Python treats as false in `if path:` / `if not tags:`
None == <<>>

P1 == <<"x">>
P2 == <<"E", "c", "s", "/", "a", "p", "p", "s">>
Paths == {P1, P2}

NL == <<"\n">>
SecA == <<"#", " ", "A">> \o NL \o Rep("a", 50)
SecB == <<"#", "#", " ", "B">> \o NL \o Rep("b", 50)
SecC == <<"#", " ", "C">> \o NL \o Rep("c", 50)
Tiny == <<"#", " ", "T">> \o NL \o Rep("t", 5)

DocAB == Tiny \o NL \o SecA \o NL \o SecB
DocBC == SecB \o NL \o SecC
DocAA == SecA \o NL \o SecA
DocTiny == Tiny
Docs == {DocAB, DocBC, DocAA, DocTiny}

\* the versions each file goes through
Versions(p) == IF p = P1 THEN {DocAB, DocAA, DocTiny} ELSE {DocBC}

\* Documents for the chunker: every sequence of at most MaxHeadings headings
\* of depths 1..MaxDepth, the k-th heading named by the k-th capital letter
\* and followed by a body long enough to be kept.
MaxHeadings == 3
MaxDepth == 3
DepthSeqs == UNION {[1..n -> 1..MaxDepth] : n \in 1..MaxHeadings}
HeadingName(k) == <<UpperCase[k]>>
HeadingLine(k, d) == Rep("#", d) \o <<" ">> \o HeadingName(k)
RECURSIVE HeadingDoc(_, _)
HeadingDoc(depths, k) ==
    IF k > Len(depths) THEN <<>>
    ELSE (IF k > 1 THEN NL ELSE <<>>)
         \o HeadingLine(k, depths[k]) \o NL \o Rep(LowerCase[k], MinContent)
         \o HeadingDoc(depths, k + 1)
HeadingDocs == {HeadingDoc(depths, 1) : depths \in DepthSeqs}

\* Documents around the size threshold: a section of n characters once trimmed
SizeSection(c, n) == <<"#", " ", c>> \o NL \o Rep(c, n - 4)
SizeDocs ==
    { SizeSection("t", MinContent),
      SizeSection("t", MinContent + 1),
      SizeSection("t", MinContent) \o NL \o SizeSection("u", MinContent + 1),
      Rep("p", MinContent + 1) \o NL \o SizeSection("t", MinContent - 1),
      <<" ">> \o Rep("p", MinContent) \o <<" ">> \o NL \o NL
          \o SizeSection("u", MinContent + 2) \o <<" ">> \o NL,
      <<>> }
ChunkerDocs == HeadingDocs \cup SizeDocs

NoteN == <<"n", "1">>
Blank == <<" ", "\n">>

TagT == <<"t">>
DocType == <<"d", "o", "c">>
NoteType == <<"n", "o", "t", "e">>

\* the calls made: (path, tags) of ingest, (content, tags, source, chunk_type) of add
IngestArgs == {<<P1, None>>, <<P2, None>>}
AddArgs ==
    { <<None, <<TagT>>, None, NoteType>>,
      <<Blank, <<TagT>>, P1, DocType>>,
      <<NoteN, None, None, NoteType>>,
      <<SecB, None, P1, DocType>>,
      <<NoteN, <<TagT>>, None, NoteType>>,
      <<NoteN, <<TagT>>, P1, DocType>>,
      <<SecB, <<TagT>>, P1, NoteType>> }
NoteSection == <<"N", "o", "t", "e">>

MaxClock == 1

\* row ids grow without bound; calls that would pass MaxId are not made
MaxId == 3
IdsBounded(meta) == \A r \in meta : r.id <= MaxId

\* the chunks of each document text, computed once per text
DocChunks == [d \in Docs \cup ChunkerDocs |-> _chunk_document(d, None)]

ChunksOfFile(text, path) ==
    [k \in 1..Len(DocChunks[text]) |-> [DocChunks[text][k] EXCEPT !.source = path]]

(***************************************************************************)
(* Document source: existence check and read-to-string                     *)
(***************************************************************************)
AbsentFile == [exists |-> FALSE, readable |-> TRUE, text |-> <<>>]

\* a source that names no file under DOCS_ROOT is an absent file
FileAt(fs, path) == IF path \in DOMAIN fs THEN fs[path] ELSE AbsentFile

\* the existence check made on DOCS_ROOT instead of the file
FileExistsRoot(fs, path) == TRUE

\* `full_path.exists()`
FileExists(fs, path) == FileAt(fs, path).exists

\* `open(full_path)` ... `f.read()` raises when the file is missing or cannot be read
ReadRaises(fs, path) == ~FileAt(fs, path).exists \/ ~FileAt(fs, path).readable

(***************************************************************************)
(* Chunk store: the chunk_meta table and the chunks_fts index              *)
(***************************************************************************)
SetMax(S) == CHOOSE m \in S : \A x \in S : x <= m

\* cursor.lastrowid of an INSERT into chunk_meta
LastRowId(meta) ==
    IF meta = {} THEN 1 ELSE SetMax({r.id : r \in meta}) + 1

\* the duplicate check restricted to doc chunks
ExistingAmongDocs(meta, content_hash) ==
    \E r \in meta : r.chunk_type = <<"d", "o", "c">> /\ r.content_hash = content_hash

\* the duplicate check with its result ignored
ExistingIgnored(meta, content_hash) == FALSE

\* "SELECT id FROM chunk_meta WHERE content_hash = ?" ... fetchone()
Existing(meta, content_hash) ==
    \E r \in meta : r.content_hash = content_hash

MetaRow(id, source, section, tags_csv, chunk_type, created_at, content_hash) ==
    [id |-> id, source |-> source, section |-> section, tags |-> tags_csv,
     chunk_type |-> chunk_type, created_at |-> created_at,
     content_hash |-> content_hash]

FtsRow(rowid, content, source, section, tags_str) ==
    [rowid |-> rowid, content |-> content, source |-> source,
     section |-> section, tags |-> tags_str]

(***************************************************************************)
(* Tag inference                                                           *)
(***************************************************************************)
TagHints == << <<"i", "n", "f", "r", "a">>,
               <<"a", "g", "e", "n", "t", "s">>,
               <<"a", "p", "p", "s">>,
               <<"s", "h", "a", "r", "e", "d">>,
               <<"p", "i", "p", "e", "l", "i", "n", "e", "s">>,
               <<"e", "c", "s">>,
               <<"l", "a", "m", "b", "d", "a">> >>
\* another sentinel for a path without hints
GeneralMisc == <<"m", "i", "s", "c">>
General == <<"g", "e", "n", "e", "r", "a", "l">>

RECURSIVE CollectHints(_, _)
CollectHints(path_lower, k) ==
    IF k > Len(TagHints) THEN <<>>
    ELSE (IF contains(path_lower, TagHints[k]) THEN <<TagHints[k]>> ELSE <<>>)
         \o CollectHints(path_lower, k + 1)

\* the hints looked up in the path as written, not lowercased
InferTagsNoLower(path, tags) ==
    IF tags # <<>> THEN tags
    ELSE LET hinted == CollectHints(path, 1)
         IN  IF hinted = <<>> THEN <<General>> ELSE hinted

InferTags(path, tags) ==
    IF tags # <<>> THEN tags
    ELSE LET hinted == CollectHints(lower(path), 1)
         IN  IF hinted = <<>> THEN <<General>> ELSE hinted

(***************************************************************************)
(* Ingestion: the insert loop of DocMemory.ingest / _ingest_document       *)
(***************************************************************************)
RECURSIVE InsertChunks(_, _, _, _, _, _, _)
InsertChunks(chunks, k, tags, created_at, meta, fts, inserted) ==
    IF k > Len(chunks)
    THEN [meta |-> meta, fts |-> fts, inserted |-> inserted]
    ELSE LET chunk        == chunks[k]
             content_hash == _hash_content(chunk.content)
         IN  IF Existing(meta, content_hash)
             THEN InsertChunks(chunks, k + 1, tags, created_at, meta, fts, inserted)
             ELSE LET id == LastRowId(meta)
                  IN  InsertChunks(chunks, k + 1, tags, created_at,
                          meta \cup {MetaRow(id, chunk.source, chunk.section,
                                             join(<<",">>, tags), DocType,
                                             created_at, content_hash)},
                          fts \cup {FtsRow(id, chunk.content, chunk.source,
                                           chunk.section, join(<<" ">>, tags))},
                          inserted + 1)

\* an ingest that first drops the stored doc chunks of the path, as refresh does
IngestResultReplace(meta, fts, fs, clock, path, tags) ==
    IF ~FileExists(fs, path)
    THEN [meta |-> meta, fts |-> fts, inserted |-> 0, raised |-> FALSE]
    ELSE IF ReadRaises(fs, path)
    THEN [meta |-> meta, fts |-> fts, inserted |-> 0, raised |-> TRUE]
    ELSE LET chunks == ChunksOfFile(fs[path].text, path)
             old    == {m \in meta : m.chunk_type = DocType /\ m.source = path}
             kept   == meta \ old
             keptF  == {f \in fts : f.rowid \notin {m.id : m \in old}}
         IN  IF chunks = <<>>
             THEN [meta |-> meta, fts |-> fts, inserted |-> 0, raised |-> FALSE]
             ELSE LET r == InsertChunks(chunks, 1, InferTags(path, tags), clock,
                                        kept, keptF, 0)
                  IN  [meta |-> r.meta, fts |-> r.fts, inserted |-> r.inserted,
                       raised |-> FALSE]

\* The whole of ingest(path, tags) as a function of the store, the files and
\* the clock: the store it leaves, the count it returns, whether it raised.
IngestResult(meta, fts, fs, clock, path, tags) ==
    IF ~FileExists(fs, path)
    THEN [meta |-> meta, fts |-> fts, inserted |-> 0, raised |-> FALSE]
    ELSE IF ReadRaises(fs, path)
    THEN [meta |-> meta, fts |-> fts, inserted |-> 0, raised |-> TRUE]
    ELSE LET chunks == ChunksOfFile(fs[path].text, path)
         IN  IF chunks = <<>>
             THEN [meta |-> meta, fts |-> fts, inserted |-> 0, raised |-> FALSE]
             ELSE LET r == InsertChunks(chunks, 1, InferTags(path, tags), clock,
                                        meta, fts, 0)
                  IN  [meta |-> r.meta, fts |-> r.fts, inserted |-> r.inserted,
                       raised |-> FALSE]

\* _ingest_document of mcp_server.py: the same statements as DocMemory.ingest
_ingest_document(meta, fts, fs, clock, path, tags) ==
    IngestResult(meta, fts, fs, clock, path, tags)

(***************************************************************************)
(* Direct addition: DocMemory.add / tool_memory_add                        *)
(***************************************************************************)
Digits == <<"0", "1", "2", "3", "4", "5", "6", "7", "8", "9">>

RECURSIVE DateStr(_)
DateStr(n) ==
    IF n < 10 THEN <<Digits[n + 1]>>
    ELSE DateStr(n \div 10) \o <<Digits[(n % 10) + 1]>>

\* f"session:{datetime.now().strftime('%Y-%m-%d')}"
SessionSource(clock) ==
    <<"s", "e", "s", "s", "i", "o", "n", ":">> \o DateStr(clock)

\* the content guard written `if not content:`
AddDeclineReasonNoStrip(content, tags) ==
    IF content = <<>> THEN "empty_content"
    ELSE IF tags = <<>> THEN "no_tags"
    ELSE ""

\* the two validation guards of add; "" when the arguments pass
AddDeclineReason(content, tags) ==
    IF strip(content) = <<>> THEN "empty_content"
    ELSE IF tags = <<>> THEN "no_tags"
    ELSE ""

\* add written as INSERT OR REPLACE: a duplicate is declined, but its row is rewritten
AddResultReplace(meta, fts, clock, content, tags, source, chunk_type) ==
    IF AddDeclineReason(content, tags) # ""
    THEN [meta |-> meta, fts |-> fts, added |-> FALSE,
          reason |-> AddDeclineReason(content, tags)]
    ELSE LET content_hash == _hash_content(content)
             src  == IF source = <<>> THEN SessionSource(clock) ELSE source
             old  == {r \in meta : r.content_hash = content_hash}
             id   == IF old = {} THEN LastRowId(meta) ELSE (CHOOSE r \in old : TRUE).id
         IN  [meta |-> (meta \ old) \cup {MetaRow(id, src, NoteSection,
                                                  join(<<",">>, tags), chunk_type,
                                                  clock, content_hash)},
              fts  |-> {f \in fts : f.rowid # id}
                         \cup {FtsRow(id, content, src, NoteSection, join(<<" ">>, tags))},
              added |-> old = {},
              reason |-> IF old = {} THEN "" ELSE "duplicate"]

AddResult(meta, fts, clock, content, tags, source, chunk_type) ==
    IF AddDeclineReason(content, tags) # ""
    THEN [meta |-> meta, fts |-> fts, added |-> FALSE,
          reason |-> AddDeclineReason(content, tags)]
    ELSE LET content_hash == _hash_content(content)
         IN  IF Existing(meta, content_hash)
             THEN [meta |-> meta, fts |-> fts, added |-> FALSE,
                   reason |-> "duplicate"]
             ELSE LET src == IF source = <<>> THEN SessionSource(clock) ELSE source
                      id  == LastRowId(meta)
                  IN  [meta |-> meta \cup {MetaRow(id, src, NoteSection,
                                                   join(<<",">>, tags), chunk_type,
                                                   clock, content_hash)},
                       fts  |-> fts \cup {FtsRow(id, content, src, NoteSection,
                                                 join(<<" ">>, tags))},
                       added |-> TRUE, reason |-> ""]

\* tool_memory_add of mcp_server.py: the same guards and statements as DocMemory.add
tool_memory_add(meta, fts, clock, content, tags, source, chunk_type) ==
    AddResult(meta, fts, clock, content, tags, source, chunk_type)

(***************************************************************************)
(* Reconciliation: DocMemory.refresh and tool_memory_refresh               *)
(***************************************************************************)
\* the selection without its chunk_type condition
DocSourcesAnyType(meta) == {r.source : r \in meta}

\* "SELECT DISTINCT source FROM chunk_meta WHERE chunk_type = 'doc'"
DocSources(meta) == {r.source : r \in {m \in meta : m.chunk_type = DocType}}

\* the orders in which a SELECT without ORDER BY may return a set of rows
Orders(S) ==
    {o \in [1..Cardinality(S) -> S] :
        \A i, j \in 1..Cardinality(S) : i # j => o[i] # o[j]}

\* `sources = [path]` or the rows of the SELECT DISTINCT, in the order returned
RefreshSources(path, order) == IF path # <<>> THEN <<path>> ELSE order

\* the selection without its chunk_type condition
DocChunkIdsAnyType(meta, source) == {r.id : r \in {m \in meta : m.source = source}}

\* the selection with a chunk_type no chunk has
DocChunkIdsTypo(meta, source) ==
    {r.id : r \in {m \in meta : m.source = source /\ m.chunk_type = <<"d", "o", "c", "s">>}}

\* "SELECT id FROM chunk_meta WHERE source = ? AND chunk_type = 'doc'"
DocChunkIds(meta, source) ==
    {r.id : r \in {m \in meta : m.source = source /\ m.chunk_type = DocType}}

\* the two DELETE statements, for each selected id
DeleteMeta(meta, ids) == {r \in meta : r.id \notin ids}
\* the index rows left in place
DeleteFtsNone(fts, ids) == fts
DeleteFts(fts, ids) == {r \in fts : r.rowid \notin ids}

\* DocMemory.refresh: per source, delete and commit, then re-ingest
RECURSIVE RefreshLoop(_, _, _, _, _, _, _, _)
RefreshLoop(sources, k, meta, fts, fs, clock, deleted, ingested) ==
    IF k > Len(sources)
    THEN [meta |-> meta, fts |-> fts, deleted |-> deleted, ingested |-> ingested,
          raised |-> FALSE, failed_at |-> 0]
    ELSE LET source == sources[k]
             ids    == DocChunkIds(meta, source)
             meta1  == DeleteMeta(meta, ids)
             fts1   == DeleteFts(fts, ids)
             del1   == deleted + Cardinality(ids)
         IN  IF FileExists(fs, source)
             THEN LET r == IngestResult(meta1, fts1, fs, clock, source, None)
                  IN  IF r.raised
                      THEN [meta |-> meta1, fts |-> fts1, deleted |-> del1,
                            ingested |-> ingested, raised |-> TRUE, failed_at |-> k]
                      ELSE RefreshLoop(sources, k + 1, r.meta, r.fts, fs, clock,
                                       del1, ingested + r.inserted)
             ELSE RefreshLoop(sources, k + 1, meta1, fts1, fs, clock, del1, ingested)

\* DocMemory.refresh(path); `order` is the order the SELECT DISTINCT returns
\* its rows in. The result is the store left and the dictionary returned.
RefreshResult(path, order, meta, fts, fs, clock) ==
    LET sources == RefreshSources(path, order)
        r       == RefreshLoop(sources, 1, meta, fts, fs, clock, 0, 0)
    IN  [meta |-> r.meta, fts |-> r.fts, deleted |-> r.deleted,
         ingested |-> r.ingested, sources |-> Len(sources), raised |-> r.raised,
         failed_at |-> r.failed_at, scope |-> sources]

\* tool_memory_refresh, first loop: delete and commit for every source
RECURSIVE ToolDeleteLoop(_, _, _, _, _)
ToolDeleteLoop(sources, k, meta, fts, deleted) ==
    IF k > Len(sources)
    THEN [meta |-> meta, fts |-> fts, deleted |-> deleted]
    ELSE LET ids == DocChunkIds(meta, sources[k])
         IN  ToolDeleteLoop(sources, k + 1, DeleteMeta(meta, ids),
                            DeleteFts(fts, ids), deleted + Cardinality(ids))

\* tool_memory_refresh, second loop: re-ingest every source whose file exists
RECURSIVE ToolIngestLoop(_, _, _, _, _, _, _, _)
ToolIngestLoop(sources, k, meta, fts, fs, clock, deleted, ingested) ==
    IF k > Len(sources)
    THEN [meta |-> meta, fts |-> fts, deleted |-> deleted, ingested |-> ingested,
          raised |-> FALSE, failed_at |-> 0]
    ELSE IF FileExists(fs, sources[k])
    THEN LET r == _ingest_document(meta, fts, fs, clock, sources[k], None)
         IN  IF r.raised
             THEN [meta |-> meta, fts |-> fts, deleted |-> deleted,
                   ingested |-> ingested, raised |-> TRUE, failed_at |-> k]
             ELSE ToolIngestLoop(sources, k + 1, r.meta, r.fts, fs, clock,
                                 deleted, ingested + r.inserted)
    ELSE ToolIngestLoop(sources, k + 1, meta, fts, fs, clock, deleted, ingested)

\* tool_memory_refresh(path)
ToolRefreshResult(path, order, meta, fts, fs, clock) ==
    LET sources == RefreshSources(path, order)
        d       == ToolDeleteLoop(sources, 1, meta, fts, 0)
        r       == ToolIngestLoop(sources, 1, d.meta, d.fts, fs, clock, d.deleted, 0)
    IN  [meta |-> r.meta, fts |-> r.fts, deleted |-> r.deleted,
         ingested |-> r.ingested, sources |-> Len(sources), raised |-> r.raised,
         failed_at |-> r.failed_at, scope |-> sources]

(***************************************************************************)
(* Search: the query DocMemory.search / tool_memory_search build, and the  *)
(* text index (SQLite FTS5) that evaluates it                              *)
(***************************************************************************)
\* str.split() with no argument: the maximal runs of non-whitespace
RECURSIVE split_ws(_)
split_ws(s) ==
    LET t == lstrip(s, Whitespace)
    IN  IF t = <<>> THEN <<>>
        ELSE LET n == CHOOSE k \in 1..Len(t) :
                          /\ \A j \in 1..k : t[j] \notin Whitespace
                          /\ (k = Len(t) \/ t[k + 1] \in Whitespace)
             IN  <<SubSeq(t, 1, n)>> \o split_ws(SubSeq(t, n + 1, Len(t)))

\* s.replace(old, new) for a one-character old
RECURSIVE replace(_, _, _)
replace(s, old, new) ==
    IF s = <<>> THEN <<>>
    ELSE (IF Head(s) = old THEN new ELSE <<Head(s)>>) \o replace(Tail(s), old, new)

Quote == "\""
OrSep == <<" ", "O", "R", " ">>

\* the words of the query, each with its double quotes doubled
SafeWords(query) ==
    LET words == SelectSeq(split_ws(query), LAMBDA w : strip(w) # <<>>)
    IN  [i \in 1..Len(words) |-> replace(words[i], Quote, <<Quote, Quote>>)]

\* the tags joined to the words with AND
FtsQueryAnd(query, tags) ==
    LET safe_words == SafeWords(query)
        fts_query  == IF Len(safe_words) > 1 THEN join(OrSep, safe_words)
                      ELSE IF safe_words # <<>> THEN safe_words[1]
                      ELSE query
    IN  IF tags # None
        THEN <<"(">> \o fts_query \o <<")", " ", "A", "N", "D", " ", "t", "a", "g", "s", ":", "(">>
                 \o join(OrSep, tags) \o <<")">>
        ELSE fts_query

\* fts_query: the words joined with OR, then `(...) OR tags:(...)` when tags are given
FtsQuery(query, tags) ==
    LET safe_words == SafeWords(query)
        fts_query  == IF Len(safe_words) > 1 THEN join(OrSep, safe_words)
                      ELSE IF safe_words # <<>> THEN safe_words[1]
                      ELSE query
    IN  IF tags # None
        THEN <<"(">> \o fts_query \o <<")", " ", "O", "R", " ", "t", "a", "g", "s", ":", "(">>
                 \o join(OrSep, tags) \o <<")">>
        ELSE fts_query

\* --- the index's query syntax: barewords, "strings", ( ) : AND OR NOT ---
Digit == {Digits[i] : i \in 1..10}
Letter == {UpperCase[i] : i \in 1..26} \cup {LowerCase[i] : i \in 1..26}
AlNum == Letter \cup Digit
BareChars == AlNum \cup {"_"}

Tok(t, v) == [t |-> t, v |-> v]
ErrTok == Tok("err", <<>>)

\* length of the longest prefix of s made of characters of cs
RECURSIVE RunLen(_, _)
RunLen(s, cs) == IF s # <<>> /\ Head(s) \in cs THEN 1 + RunLen(Tail(s), cs) ELSE 0

\* index of the quote that closes a string opened before position i ("" is an
\* escaped quote), 0 when the string is not closed
RECURSIVE StringEnd(_, _)
StringEnd(s, i) ==
    IF i > Len(s) THEN 0
    ELSE IF s[i] # Quote THEN StringEnd(s, i + 1)
    ELSE IF i < Len(s) /\ s[i + 1] = Quote THEN StringEnd(s, i + 2)
    ELSE i

Keyword(w) ==
    IF w = <<"O", "R">> THEN Tok("or", <<>>)
    ELSE IF w = <<"A", "N", "D">> THEN Tok("and", <<>>)
    ELSE IF w = <<"N", "O", "T">> THEN Tok("not", <<>>)
    ELSE Tok("word", w)

\* the tokens of a query; a character that is no part of the syntax, or an
\* unclosed string, gives an err token (the index reports a syntax error)
RECURSIVE Fts5Lex(_)
Fts5Lex(s) ==
    IF s = <<>> THEN <<>>
    ELSE LET c == Head(s)
         IN  IF c \in Whitespace THEN Fts5Lex(Tail(s))
             ELSE IF c = "(" THEN <<Tok("lp", <<>>)>> \o Fts5Lex(Tail(s))
             ELSE IF c = ")" THEN <<Tok("rp", <<>>)>> \o Fts5Lex(Tail(s))
             ELSE IF c = ":" THEN <<Tok("colon", <<>>)>> \o Fts5Lex(Tail(s))
             ELSE IF c = Quote
             THEN LET e == StringEnd(s, 2)
                  IN  IF e = 0 THEN <<ErrTok>>
                      ELSE <<Tok("str", SubSeq(s, 2, e - 1))>>
                               \o Fts5Lex(SubSeq(s, e + 1, Len(s)))
             ELSE IF c \in BareChars
             THEN LET n == RunLen(s, BareChars)
                  IN  <<Keyword(SubSeq(s, 1, n))>> \o Fts5Lex(SubSeq(s, n + 1, Len(s)))
             ELSE <<ErrTok>>

\* the index's tokenizer: the maximal runs of letters and digits, in lower case
RECURSIVE Tokens(_)
Tokens(s) ==
    IF s = <<>> THEN <<>>
    ELSE IF Head(s) \notin AlNum THEN Tokens(Tail(s))
    ELSE LET n == RunLen(s, AlNum)
         IN  <<lower(SubSeq(s, 1, n))>> \o Tokens(SubSeq(s, n + 1, Len(s)))

\* the tokens of the texts the store can hold, computed once per text
StoredTexts ==
    UNION {{DocChunks[d][k].content : k \in 1..Len(DocChunks[d])} : d \in Docs}
        \cup {a[1] : a \in AddArgs}
TokenTable == [s \in StoredTexts |-> Tokens(s)]
TokensOf(s) == IF s \in StoredTexts THEN TokenTable[s] ELSE Tokens(s)

\* the columns of chunks_fts
ColContent == <<"c", "o", "n", "t", "e", "n", "t">>
ColSource == <<"s", "o", "u", "r", "c", "e">>
ColSection == <<"s", "e", "c", "t", "i", "o", "n">>
ColTags == <<"t", "a", "g", "s">>
ColumnNames == {ColContent, ColSource, ColSection, ColTags}

ColText(row, col) ==
    IF col = ColContent THEN row.content
    ELSE IF col = ColSource THEN row.source
    ELSE IF col = ColSection THEN row.section
    ELSE row.tags

\* what the index holds of a row: the tokens of each column
IndexedRow(row) ==
    [content |-> TokensOf(row.content),
     source  |-> TokensOf(row.source),
     section |-> TokensOf(row.section),
     tags    |-> TokensOf(row.tags)]

\* a phrase matches a row when its tokens stand next to each other in one of
\* the columns searched; row is the indexed row
PhraseHit(tok, row, cols) ==
    LET phrase == Tokens(tok.v)
    IN  /\ phrase # <<>>
        /\ \E col \in cols : contains(ColText(row, col), phrase)

\* the parse of a token list against one row: whether the tokens read so far
\* are well formed, the tokens left, and whether the row matches
Parsed(ok, rest, hit) == [ok |-> ok, rest |-> rest, hit |-> hit]
ParseFail == Parsed(FALSE, <<>>, FALSE)

IsPhraseTok(tok) == tok.t \in {"word", "str"}

\* phrase | column : phrase
ParseCNear(toks, row, cols) ==
    IF toks = <<>> THEN ParseFail
    ELSE IF toks[1].t = "word" /\ Len(toks) >= 2 /\ toks[2].t = "colon"
    THEN IF lower(toks[1].v) \notin ColumnNames \/ Len(toks) < 3
         THEN ParseFail
         ELSE IF ~IsPhraseTok(toks[3]) THEN ParseFail
         ELSE Parsed(TRUE, SubSeq(toks, 4, Len(toks)),
                     PhraseHit(toks[3], row, cols \cap {lower(toks[1].v)}))
    ELSE IF IsPhraseTok(toks[1])
    THEN Parsed(TRUE, Tail(toks), PhraseHit(toks[1], row, cols))
    ELSE ParseFail

\* phrases written side by side are combined with AND
RECURSIVE ParseList(_, _, _)
ParseList(toks, row, cols) ==
    LET r == ParseCNear(toks, row, cols)
    IN  IF r.ok /\ r.rest # <<>> /\ IsPhraseTok(r.rest[1])
        THEN LET r2 == ParseList(r.rest, row, cols)
             IN  Parsed(r2.ok, r2.rest, r.hit /\ r2.hit)
        ELSE r

CloseParen(r) ==
    IF r.ok /\ r.rest # <<>> /\ r.rest[1].t = "rp"
    THEN Parsed(TRUE, Tail(r.rest), r.hit)
    ELSE ParseFail

RECURSIVE ParseOr(_, _, _)
RECURSIVE ParseOrTail(_, _, _)
RECURSIVE ParseAnd(_, _, _)
RECURSIVE ParseAndTail(_, _, _)
RECURSIVE ParseNot(_, _, _)
RECURSIVE ParseNotTail(_, _, _)
RECURSIVE ParsePrimary(_, _, _)

\* ( expr ) | column : ( expr ) | phrase list
ParsePrimary(toks, row, cols) ==
    IF toks = <<>> THEN ParseFail
    ELSE IF toks[1].t = "lp" THEN CloseParen(ParseOr(Tail(toks), row, cols))
    ELSE IF toks[1].t = "word" /\ Len(toks) >= 3 /\ toks[2].t = "colon"
                               /\ toks[3].t = "lp"
    THEN IF lower(toks[1].v) \notin ColumnNames THEN ParseFail
         ELSE CloseParen(ParseOr(SubSeq(toks, 4, Len(toks)), row,
                                 cols \cap {lower(toks[1].v)}))
    ELSE ParseList(toks, row, cols)

ParseNotTail(r, row, cols) ==
    IF r.ok /\ r.rest # <<>> /\ r.rest[1].t = "not"
    THEN LET r2 == ParsePrimary(Tail(r.rest), row, cols)
         IN  IF r2.ok
             THEN ParseNotTail(Parsed(TRUE, r2.rest, r.hit /\ ~r2.hit), row, cols)
             ELSE ParseFail
    ELSE r
ParseNot(toks, row, cols) == ParseNotTail(ParsePrimary(toks, row, cols), row, cols)

ParseAndTail(r, row, cols) ==
    IF r.ok /\ r.rest # <<>> /\ r.rest[1].t = "and"
    THEN LET r2 == ParseNot(Tail(r.rest), row, cols)
         IN  IF r2.ok
             THEN ParseAndTail(Parsed(TRUE, r2.rest, r.hit /\ r2.hit), row, cols)
             ELSE ParseFail
    ELSE r
ParseAnd(toks, row, cols) == ParseAndTail(ParseNot(toks, row, cols), row, cols)

ParseOrTail(r, row, cols) ==
    IF r.ok /\ r.rest # <<>> /\ r.rest[1].t = "or"
    THEN LET r2 == ParseAnd(Tail(r.rest), row, cols)
         IN  IF r2.ok
             THEN ParseOrTail(Parsed(TRUE, r2.rest, r.hit \/ r2.hit), row, cols)
             ELSE ParseFail
    ELSE r
ParseOr(toks, row, cols) == ParseOrTail(ParseAnd(toks, row, cols), row, cols)

\* `chunks_fts MATCH ?` for one row: ok is false when the index rejects the
\* query (sqlite3.OperationalError), hit tells whether the row matches
Fts5MatchTokens(toks, row) ==
    LET r == ParseOr(toks, row, ColumnNames)
    IN  [ok  |-> /\ \A i \in 1..Len(toks) : toks[i].t # "err"
                 /\ r.ok
                 /\ r.rest = <<>>,
         hit |-> r.hit]

Fts5Match(fts_query, row) == Fts5MatchTokens(Fts5Lex(fts_query), IndexedRow(row))

NoRow == [rowid |-> 0, content |-> <<>>, source |-> <<>>, section |-> <<>>, tags |-> <<>>]

Fts5Rejects(fts_query) == ~Fts5Match(fts_query, NoRow).ok

\* `text LIKE pattern`: % stands for any run of characters, _ for any one
\* character, and letters match whatever their case
RECURSIVE Like(_, _)
Like(text, pattern) ==
    IF pattern = <<>> THEN text = <<>>
    ELSE IF Head(pattern) = "%"
    THEN \/ Tail(pattern) = <<>>
         \/ \E k \in 0..Len(text) : Like(SubSeq(text, k + 1, Len(text)), Tail(pattern))
    ELSE /\ text # <<>>
         /\ (Head(pattern) = "_" \/ LowerOf(Head(pattern)) = LowerOf(Head(text)))
         /\ Like(Tail(text), Tail(pattern))

\* f'%{query}%'
LikePattern(query) == <<"%">> \o query \o <<"%">>

\* the rows of `chunks_fts c JOIN chunk_meta m ON c.rowid = m.id`
Joined(meta, fts) ==
    {[c |-> p[1], m |-> p[2]] : p \in {q \in fts \X meta : q[1].rowid = q[2].id}}

\* WHERE chunks_fts MATCH ?
PrimaryRows(meta, fts, fts_query) ==
    LET toks == Fts5Lex(fts_query)
    IN  {j \in Joined(meta, fts) : Fts5MatchTokens(toks, IndexedRow(j.c)).hit}

\* WHERE c.content LIKE ? OR c.tags LIKE ?
FallbackRows(meta, fts, query) ==
    {j \in Joined(meta, fts) :
        \/ Like(j.c.content, LikePattern(query))
        \/ Like(j.c.tags, LikePattern(query))}

\* ORDER BY relevance: bm25's arithmetic is not modelled, any order may come out
RECURSIVE ByRelevance(_)
ByRelevance(S) ==
    IF S = {} THEN {<<>>}
    ELSE UNION {{<<x>> \o t : t \in ByRelevance(S \ {x})} : x \in S}

\* ORDER BY m.created_at DESC: rows of one instant come in any order
RECURSIVE ByRecency(_)
ByRecency(S) ==
    IF S = {} THEN {<<>>}
    ELSE UNION {{<<x>> \o t : t \in ByRecency(S \ {x})} :
                x \in {y \in S : \A z \in S : y.m.created_at >= z.m.created_at}}

\* the instants of a call are counted in parts of a day; created_at is a day
DayParts == 4

\* (now - created).days
AgeDays(created_at, t) == (t - created_at * DayParts) \div DayParts

StaleDays == 90

\* the staleness test written `age_days >= 90`
ResultOfStaleAt90(j, t) ==
    [content    |-> j.c.content,
     source     |-> j.c.source,
     section    |-> j.c.section,
     tags       |-> j.c.tags,
     type       |-> j.m.chunk_type,
     created_at |-> j.m.created_at,
     age_days   |-> AgeDays(j.m.created_at, t),
     is_stale   |-> AgeDays(j.m.created_at, t) >= StaleDays]

\* one entry of the list search and recent return
ResultOf(j, t) ==
    [content    |-> j.c.content,
     source     |-> j.c.source,
     section    |-> j.c.section,
     tags       |-> j.c.tags,
     type       |-> j.m.chunk_type,
     created_at |-> j.m.created_at,
     age_days   |-> AgeDays(j.m.created_at, t),
     is_stale   |-> AgeDays(j.m.created_at, t) > StaleDays]

\* the exception the index raises for a query it rejects, and the `except` clause
MatchError == "OperationalError"
Caught(error) == error = "OperationalError"

\* the two SELECT statements of search: whether the call raised, whether the
\* second statement ran, and every list of rows fetchall() may give
SearchRows(meta, fts, query, tags, limit) ==
    LET fts_query == FtsQuery(query, tags)
        rejected  == Fts5Rejects(fts_query)
    IN  IF rejected /\ ~Caught(MatchError)
        THEN [raised |-> TRUE, fallback |-> FALSE, lists |-> {}]
        ELSE [raised   |-> FALSE,
              fallback |-> rejected,
              lists    |-> {Prefix(l, limit) :
                              l \in IF rejected
                                    THEN ByRecency(FallbackRows(meta, fts, query))
                                    ELSE ByRelevance(PrimaryRows(meta, fts, fts_query))}]

\* DocMemory.search(query, tags, limit) called at instant t: every result it
\* may return. rows are the rows the SELECT gave, relevance their score column.
SearchOutcomes(meta, fts, t, query, tags, limit) ==
    LET s == SearchRows(meta, fts, query, tags, limit)
    IN  IF s.raised
        THEN {[raised |-> TRUE, fallback |-> FALSE, rows |-> <<>>,
               relevance |-> <<>>, results |-> <<>>]}
        ELSE {[raised    |-> FALSE,
               fallback  |-> s.fallback,
               rows      |-> l,
               relevance |-> [i \in 1..Len(l) |-> IF s.fallback THEN 0 ELSE i - 1 - Len(l)],
               results   |-> [i \in 1..Len(l) |-> ResultOf(l[i], t)]] :
              l \in s.lists}

PreviewMax == 500

\* row['content'][:500] + '...' if len(row['content']) > 500 else row['content']
Preview(content) ==
    IF Len(content) > PreviewMax
    THEN Prefix(content, PreviewMax) \o <<".", ".", ".">>
    ELSE content

\* the two SELECT statements of tool_memory_search: those of DocMemory.search
ToolSearchRows(meta, fts, query, tags, limit) ==
    SearchRows(meta, fts, query, tags, limit)

\* tool_memory_search(query, tags, limit): the same statements, the content cut
\* to a preview, the list wrapped with the query and its length
ToolSearchOutcomes(meta, fts, t, query, tags, limit) ==
    {[raised   |-> o.raised,
      fallback |-> o.fallback,
      rows     |-> o.rows,
      relevance |-> o.relevance,
      query    |-> query,
      count    |-> Len(o.results),
      results  |-> [i \in 1..Len(o.results) |->
                       [o.results[i] EXCEPT !.content = Preview(@)]]] :
     o \in LET s == ToolSearchRows(meta, fts, query, tags, limit)
          IN  IF s.raised
              THEN {[raised |-> TRUE, fallback |-> FALSE, rows |-> <<>>,
                     relevance |-> <<>>, results |-> <<>>]}
              ELSE {[raised    |-> FALSE,
                     fallback  |-> s.fallback,
                     rows      |-> l,
                     relevance |-> [i \in 1..Len(l) |->
                                       IF s.fallback THEN 0 ELSE i - 1 - Len(l)],
                     results   |-> [i \in 1..Len(l) |-> ResultOf(l[i], t)]] :
                    l \in s.lists}}

\* DocMemory.recent(days, limit) called at instant t
RecentOutcomes(meta, fts, t, days, limit) ==
    {[raised  |-> FALSE,
      rows    |-> Prefix(l, limit),
      results |-> [i \in 1..Len(Prefix(l, limit)) |-> ResultOf(l[i], t)]] :
     l \in ByRecency({j \in Joined(meta, fts) :
                         j.m.created_at >= (t \div DayParts) - days})}

(***************************************************************************)
(* State machine: the persisted store, the document files and the clock.   *)
(* Every call opens the store, runs to completion and commits, so a call   *)
(* is one step; what it returns is the value of its result operator in the *)
(* state it is made in.                                                    *)
(***************************************************************************)
\* a connection with no call in progress, and the outcome of its last call
Closed(error) ==
    [op |-> "idle", pc |-> "closed", drafts |-> <<>>, ids |-> <<>>, k |-> 0,
     rowid |-> 0, source |-> <<>>, meta |-> {}, fts |-> {},
     del_meta |-> {}, del_fts |-> {}, error |-> error]
Callers == {1, 2}

\* the MCP server before run_server is called: nothing read, nothing written
NotStarted == [lines |-> 0, stdout |-> <<>>, state |-> "stopped"]

Init ==
    /\ chunk_meta = {}
    /\ chunks_fts = {}
    /\ files = [p \in Paths |-> AbsentFile]
    /\ now = 0
    /\ conns = [c \in Callers |-> Closed("")]
    /\ server = NotStarted

\* the document source changes outside the engine
WriteFile(p, d) ==
    /\ files' = [files EXCEPT ![p] = [exists |-> TRUE, readable |-> TRUE, text |-> d]]
    /\ UNCHANGED <<chunk_meta, chunks_fts, now, conns, server>>

RemoveFile(p) ==
    /\ files[p].exists
    /\ files' = [files EXCEPT ![p] = AbsentFile]
    /\ UNCHANGED <<chunk_meta, chunks_fts, now, conns, server>>

MakeUnreadable(p) ==
    /\ files[p].exists /\ files[p].readable
    /\ files' = [files EXCEPT ![p].readable = FALSE]
    /\ UNCHANGED <<chunk_meta, chunks_fts, now, conns, server>>

Tick ==
    /\ now < MaxClock
    /\ now' = now + 1
    /\ UNCHANGED <<chunk_meta, chunks_fts, files, conns, server>>

\* the store a call leaves behind
Commit(r) ==
    /\ IdsBounded(r.meta)
    /\ chunk_meta' = r.meta
    /\ chunks_fts' = r.fts
    /\ UNCHANGED <<files, now, conns, server>>

\* DocMemory.ingest(path, tags)
Ingest(path, tags) ==
    Commit(IngestResult(chunk_meta, chunks_fts, files, now, path, tags))

\* DocMemory.add(content, tags, source, chunk_type)
Add(content, tags, source, chunk_type) ==
    Commit(AddResult(chunk_meta, chunks_fts, now, content, tags, source, chunk_type))

\* tool_memory_add(content, tags, source, chunk_type)
ToolMemoryAdd(content, tags, source, chunk_type) ==
    Commit(tool_memory_add(chunk_meta, chunks_fts, now, content, tags, source, chunk_type))

\* DocMemory.refresh(path)
Refresh(path) ==
    \E order \in Orders(DocSources(chunk_meta)) :
        Commit(RefreshResult(path, order, chunk_meta, chunks_fts, files, now))

\* tool_memory_refresh(path)
ToolMemoryRefresh(path) ==
    \E order \in Orders(DocSources(chunk_meta)) :
        Commit(ToolRefreshResult(path, order, chunk_meta, chunks_fts, files, now))

Next ==
    \/ \E p \in Paths : \E d \in Versions(p) : WriteFile(p, d)
    \/ \E p \in Paths : RemoveFile(p)
    \/ MakeUnreadable(P1)
    \/ Tick
    \/ \E a \in IngestArgs : Ingest(a[1], a[2])
    \/ \E a \in AddArgs : Add(a[1], a[2], a[3], a[4])
    \/ \E a \in AddArgs : ToolMemoryAdd(a[1], a[2], a[3], a[4])
    \/ \E p \in Paths \cup {None} : Refresh(p)
    \/ \E p \in Paths \cup {None} : ToolMemoryRefresh(p)

Spec == Init /\ [][Next]_vars

\* The store as ingest and add fill it while the clock runs: the states search
\* and recent are called in.
SearchDoc(p) == IF p = P1 THEN DocAB ELSE DocBC

NextSearch ==
    \/ \E p \in Paths : WriteFile(p, SearchDoc(p))
    \/ Tick
    \/ \E a \in IngestArgs : Ingest(a[1], a[2])
    \/ \E a \in AddArgs : Add(a[1], a[2], a[3], a[4])
    \/ \E a \in AddArgs : ToolMemoryAdd(a[1], a[2], a[3], a[4])

SpecSearch == Init /\ [][NextSearch]_vars

\* The chunker applied to each document of ChunkerDocs: the file is there from
\* the start and is ingested and refreshed.
InitChunker ==
    /\ chunk_meta = {}
    /\ chunks_fts = {}
    /\ now = 0
    /\ conns = [c \in Callers |-> Closed("")]
    /\ server = NotStarted
    /\ \E d \in ChunkerDocs :
          files = [p \in Paths |->
                     IF p = P1 THEN [exists |-> TRUE, readable |-> TRUE, text |-> d]
                     ELSE AbsentFile]

NextChunker ==
    \/ Tick
    \/ \E a \in IngestArgs : Ingest(a[1], a[2])
    \/ \E p \in Paths \cup {None} : Refresh(p)
    \/ \E p \in Paths \cup {None} : ToolMemoryRefresh(p)

SpecChunker == InitChunker /\ [][NextChunker]_vars

(***************************************************************************)
(* Concurrent callers. Each call opens its own connection; a call is a     *)
(* sequence of statements, and the statements of two calls interleave.     *)
(* The first INSERT or DELETE of a connection opens a transaction and      *)
(* takes the database write lock; what it writes is pending until          *)
(* conn.commit().                                                          *)
(***************************************************************************)
\* sqlite3.connect with the default isolation level: statements are not
\* committed one by one
AutoCommitOn == TRUE
AutoCommit == FALSE

\* the store without a uniqueness constraint on chunk_meta.content_hash
UniqueContentHashOff == FALSE
\* schema.sql: the store guarantees that content_hash is unique
UniqueContentHash == TRUE

\* the tables as the statements of connection c see them
ViewMeta(c) == DeleteMeta(chunk_meta, conns[c].del_meta) \cup conns[c].meta
ViewFts(c) == DeleteFts(chunks_fts, conns[c].del_fts) \cup conns[c].fts

\* connection c has an open transaction, and with it the write lock
InTx(c) ==
    \/ conns[c].meta # {} \/ conns[c].fts # {}
    \/ conns[c].del_meta # {} \/ conns[c].del_fts # {}
LockedOut(c) == \E o \in Callers \ {c} : InTx(o)

\* callers keep to one writer per source: no other ingest or refresh of it
SourceFree(c, source) ==
    \A o \in Callers \ {c} :
        conns[o].op \in {"ingest", "refresh"} => conns[o].source # source

\* the rows ingest is about to insert for a file
Drafts(path, tags, clock) ==
    LET chunks == ChunksOfFile(files[path].text, path)
        tagged == InferTags(path, tags)
    IN  [k \in 1..Len(chunks) |->
            [content |-> chunks[k].content, source |-> chunks[k].source,
             section |-> chunks[k].section, tags_csv |-> join(<<",">>, tagged),
             tags_str |-> join(<<" ">>, tagged), chunk_type |-> DocType,
             created_at |-> clock]]

\* the connection of ingest(path) as it reaches its insert loop
IngestCall(path, tags, clock) ==
    [Closed("") EXCEPT !.op = "ingest", !.pc = "check", !.k = 1, !.source = path,
                       !.drafts = Drafts(path, tags, clock)]

\* a statement's effect: pending in the transaction, or stored at once
Write(c, conn) ==
    IF AutoCommit
    THEN /\ chunk_meta' = DeleteMeta(chunk_meta, conn.del_meta) \cup conn.meta
         /\ chunks_fts' = DeleteFts(chunks_fts, conn.del_fts) \cup conn.fts
         /\ conns' = [conns EXCEPT ![c] = [conn EXCEPT !.meta = {}, !.fts = {},
                                                       !.del_meta = {}, !.del_fts = {}]]
    ELSE /\ conns' = [conns EXCEPT ![c] = conn]
         /\ UNCHANGED <<chunk_meta, chunks_fts>>

\* add / tool_memory_add up to the duplicate check
StartAdd(c, content, tags, source, chunk_type) ==
    /\ conns[c].op = "idle"
    /\ AddDeclineReason(content, tags) = ""
    /\ conns' = [conns EXCEPT ![c] =
          [Closed("") EXCEPT !.op = "add", !.pc = "check", !.k = 1,
              !.drafts = << [content |-> content,
                             source |-> IF source = <<>> THEN SessionSource(now)
                                        ELSE source,
                             section |-> NoteSection,
                             tags_csv |-> join(<<",">>, tags),
                             tags_str |-> join(<<" ">>, tags),
                             chunk_type |-> chunk_type, created_at |-> now] >>]]
    /\ UNCHANGED <<chunk_meta, chunks_fts, files, now, server>>

\* ingest / _ingest_document up to its insert loop
StartIngest(c, path, tags) ==
    /\ conns[c].op = "idle"
    /\ SourceFree(c, path)
    /\ FileExists(files, path) /\ ~ReadRaises(files, path)
    /\ ChunksOfFile(files[path].text, path) # <<>>
    /\ conns' = [conns EXCEPT ![c] = IngestCall(path, tags, now)]
    /\ UNCHANGED <<chunk_meta, chunks_fts, files, now, server>>

\* refresh(path) up to its delete loop: the ids selected, in the order returned
StartRefresh(c, path) ==
    /\ conns[c].op = "idle"
    /\ SourceFree(c, path)
    /\ \E order \in Orders(DocChunkIds(chunk_meta, path)) :
          conns' = [conns EXCEPT ![c] =
              [Closed("") EXCEPT !.op = "refresh", !.source = path, !.ids = order,
                                 !.k = 1,
                                 !.pc = IF order = <<>> THEN "commit" ELSE "delete_fts"]]
    /\ UNCHANGED <<chunk_meta, chunks_fts, files, now, server>>

\* the duplicate check written as an upsert: the existing row is given the
\* source of the new chunk
CheckDuplicateUpsert(c) ==
    LET conn == conns[c]
        hash == _hash_content(conn.drafts[conn.k].content)
    IN  /\ conn.pc = "check"
        /\ chunk_meta' = {IF r.content_hash = hash
                          THEN [r EXCEPT !.source = conn.drafts[conn.k].source]
                          ELSE r : r \in chunk_meta}
        /\ conns' = [conns EXCEPT ![c] =
              IF ~Existing(ViewMeta(c), hash)
              THEN [conn EXCEPT !.pc = "insert_meta"]
              ELSE IF conn.op = "add" THEN Closed("duplicate")
              ELSE IF conn.k < Len(conn.drafts) THEN [conn EXCEPT !.k = conn.k + 1]
              ELSE [conn EXCEPT !.pc = "commit"]]
        /\ UNCHANGED <<chunks_fts, files, now, server>>

\* "SELECT id FROM chunk_meta WHERE content_hash = ?": add returns on a
\* duplicate, ingest goes on to its next chunk
CheckDuplicate(c) ==
    LET conn == conns[c]
    IN  /\ conn.pc = "check"
        /\ conns' = [conns EXCEPT ![c] =
              IF ~Existing(ViewMeta(c), _hash_content(conn.drafts[conn.k].content))
              THEN [conn EXCEPT !.pc = "insert_meta"]
              ELSE IF conn.op = "add" THEN Closed("duplicate")
              ELSE IF conn.k < Len(conn.drafts) THEN [conn EXCEPT !.k = conn.k + 1]
              ELSE [conn EXCEPT !.pc = "commit"]]
        /\ UNCHANGED <<chunk_meta, chunks_fts, files, now, server>>

\* "INSERT INTO chunk_meta ...": waits for the write lock; a row that breaks
\* the store's uniqueness raises and the call ends uncommitted
InsertMeta(c) ==
    LET conn  == conns[c]
        draft == conn.drafts[conn.k]
        id    == LastRowId(ViewMeta(c))
    IN  /\ conn.pc = "insert_meta"
        /\ ~LockedOut(c)
        /\ id <= MaxId
        /\ IF UniqueContentHash /\ Existing(ViewMeta(c), _hash_content(draft.content))
           THEN /\ conns' = [conns EXCEPT ![c] = Closed("IntegrityError")]
                /\ UNCHANGED <<chunk_meta, chunks_fts>>
           ELSE Write(c, [conn EXCEPT
                    !.pc = "insert_fts", !.rowid = id,
                    !.meta = @ \cup {MetaRow(id, draft.source, draft.section,
                                             draft.tags_csv, draft.chunk_type,
                                             draft.created_at,
                                             _hash_content(draft.content))}])
        /\ UNCHANGED <<files, now, server>>

\* "INSERT INTO chunks_fts (rowid, ...) VALUES (cursor.lastrowid, ...)"
InsertFts(c) ==
    LET conn  == conns[c]
        draft == conn.drafts[conn.k]
    IN  /\ conn.pc = "insert_fts"
        /\ ~LockedOut(c)
        /\ Write(c, [conn EXCEPT
               !.fts = @ \cup {FtsRow(conn.rowid, draft.content, draft.source,
                                      draft.section, draft.tags_str)},
               !.k = IF conn.k < Len(conn.drafts) THEN conn.k + 1 ELSE conn.k,
               !.pc = IF conn.k < Len(conn.drafts) THEN "check" ELSE "commit"])
        /\ UNCHANGED <<files, now, server>>

\* "DELETE FROM chunks_fts WHERE rowid = ?"
DeleteFtsRow(c) ==
    LET conn == conns[c]
    IN  /\ conn.pc = "delete_fts"
        /\ ~LockedOut(c)
        /\ Write(c, [conn EXCEPT !.pc = "delete_meta",
                                 !.del_fts = @ \cup {conn.ids[conn.k]}])
        /\ UNCHANGED <<files, now, server>>

\* "DELETE FROM chunk_meta WHERE id = ?"
DeleteMetaRow(c) ==
    LET conn == conns[c]
    IN  /\ conn.pc = "delete_meta"
        /\ ~LockedOut(c)
        /\ Write(c, [conn EXCEPT
               !.del_meta = @ \cup {conn.ids[conn.k]},
               !.k = IF conn.k < Len(conn.ids) THEN conn.k + 1 ELSE conn.k,
               !.pc = IF conn.k < Len(conn.ids) THEN "delete_fts" ELSE "commit"])
        /\ UNCHANGED <<files, now, server>>

\* conn.commit(): the transaction's writes are stored together. refresh goes
\* on to ingest the source if its file exists; the other calls return.
CommitTx(c) ==
    LET conn == conns[c]
    IN  /\ conn.pc = "commit"
        /\ chunk_meta' = ViewMeta(c)
        /\ chunks_fts' = ViewFts(c)
        /\ conns' = [conns EXCEPT ![c] =
              IF /\ conn.op = "refresh"
                 /\ FileExists(files, conn.source)
                 /\ ~ReadRaises(files, conn.source)
                 /\ ChunksOfFile(files[conn.source].text, conn.source) # <<>>
              THEN IngestCall(conn.source, None, now)
              ELSE Closed("")]
        /\ UNCHANGED <<files, now, server>>

\* the write lock is not released within sqlite3's timeout: the statement
\* raises, nothing of the call is stored
BusyTimeout(c) ==
    /\ conns[c].pc \in {"insert_meta", "insert_fts", "delete_fts", "delete_meta"}
    /\ LockedOut(c)
    /\ conns' = [conns EXCEPT ![c] = Closed("OperationalError: database is locked")]
    /\ UNCHANGED <<chunk_meta, chunks_fts, files, now, server>>

\* the calls made concurrently: the same note added by both callers, and the
\* two files, which share a section
InitConc ==
    /\ chunk_meta = {}
    /\ chunks_fts = {}
    /\ now = 0
    /\ conns = [c \in Callers |-> Closed("")]
    /\ server = NotStarted
    /\ files = [p \in Paths |->
                  [exists |-> TRUE, readable |-> TRUE, text |-> SearchDoc(p)]]

NextConc ==
    \E c \in Callers :
        \/ StartAdd(c, NoteN, <<TagT>>, None, NoteType)
        \/ \E p \in Paths : StartIngest(c, p, None)
        \/ \E p \in Paths : StartRefresh(c, p)
        \/ CheckDuplicate(c)
        \/ InsertMeta(c)
        \/ InsertFts(c)
        \/ DeleteFtsRow(c)
        \/ DeleteMetaRow(c)
        \/ CommitTx(c)
        \/ BusyTimeout(c)

SpecConc == InitConc /\ [][NextConc]_vars

(***************************************************************************)
(* MCP JSON-RPC protocol: create_response, handle_tools_call,              *)
(* handle_request and the loop of run_server                               *)
(***************************************************************************)
\* A stdin line by what `json.loads(line.strip())` makes of it: nothing left
\* after strip(), a JSONDecodeError, or a JSON value. Of an object the
\* members the server reads are kept: method ("" when absent), params, and
\* id (None when absent or null, <<n>> for the number n).
NoArguments == [kind |-> "absent", keys |-> {}, content |-> None, tags |-> None,
                path |-> None]
NoParams == [kind |-> "absent", name |-> "", arguments |-> NoArguments]
NullParams == [NoParams EXCEPT !.kind = "null"]
ToolCall(name, arguments) == [kind |-> "object", name |-> name, arguments |-> arguments]
NoValue == [type |-> "none", method |-> "", params |-> NoParams, id |-> None]
BlankLine == [text |-> "blank", value |-> NoValue]
InvalidJson == [text |-> "invalid", value |-> NoValue]
JsonLine(value) == [text |-> "json", value |-> value]
JsonObject(method, params, id) ==
    [type |-> "object", method |-> method, params |-> params, id |-> id]

\* the argument objects of the tools/call requests made
AddArguments ==
    [kind |-> "object", keys |-> {"content", "tags"}, content |-> NoteN,
     tags |-> <<TagT>>, path |-> None]
AddNoTags == [AddArguments EXCEPT !.keys = {"content"}, !.tags = None]
RefreshArguments ==
    [kind |-> "object", keys |-> {"path"}, content |-> None, tags |-> None,
     path |-> P1]
NullArguments == [NoArguments EXCEPT !.kind = "null"]
CallParams ==
    { NoParams, NullParams, ToolCall("", NoArguments),
      ToolCall("memory_add", AddArguments), ToolCall("memory_add", AddNoTags),
      ToolCall("memory_add", NullArguments),
      ToolCall("memory_refresh", RefreshArguments),
      ToolCall("memory_refresh", NoArguments),
      ToolCall("resources_read", NoArguments) }
Methods ==
    {"initialize", "notifications/initialized", "tools/list", "tools/call", "ping",
     "resources/list", ""}
RequestIds == {None, <<1>>}
Requests ==
    {JsonObject(m, p, i) : m \in Methods \ {"tools/call"}, p \in {NoParams, NullParams},
                           i \in RequestIds}
    \cup {JsonObject("tools/call", p, i) : p \in CallParams, i \in RequestIds}
NonObjects ==
    {[NoValue EXCEPT !.type = t] : t \in {"null", "number", "string", "array", "bool"}}
Lines ==
    {BlankLine, InvalidJson} \cup {JsonLine(v) : v \in Requests \cup NonObjects}

\* create_response(id, result, error): the error member when an error is
\* given, the result member otherwise
NoError == [code |-> 0, message |-> ""]
create_response_null_id(id, result, error) ==
    IF error # NoError
    THEN [id |-> None, member |-> "error", result |-> "", error |-> error]
    ELSE [id |-> None, member |-> "result", result |-> result, error |-> NoError]

create_response(id, result, error) ==
    IF error # NoError
    THEN [id |-> id, member |-> "error", result |-> "", error |-> error]
    ELSE [id |-> id, member |-> "result", result |-> result, error |-> NoError]

\* the names registered in TOOLS; memory_add and memory_refresh are run
TOOLS ==
    {"doc_search", "doc_stats", "doc_query_stale", "doc_query_untracked",
     "doc_validate", "doc_register", "doc_mark_updated", "doc_list_tags",
     "doc_list_genres", "doc_suggest_tags", "memory_search", "memory_add",
     "memory_stats", "memory_recent", "memory_refresh"}

\* `tool["function"](**arguments)` raises TypeError when arguments is not a
\* mapping, lacks a required parameter or names an unknown one
BindRaises(name, arguments) ==
    \/ arguments.kind = "null"
    \/ name = "memory_add" /\ ~({"content", "tags"} \subseteq arguments.keys)
    \/ name = "memory_refresh" /\ ~(arguments.keys \subseteq {"path"})

Raised(message, meta, fts) ==
    [raised |-> TRUE, message |-> message, meta |-> meta, fts |-> fts]
Returned(meta, fts) ==
    [raised |-> FALSE, message |-> "", meta |-> meta, fts |-> fts]

\* handle_tools_call(params): the ways the call can end, each with the store
\* it leaves
handle_tools_call(params, meta, fts, fs, clock) ==
    IF params.kind = "null"
    THEN {Raised("AttributeError", meta, fts)}
    ELSE IF params.name \notin TOOLS
    THEN {Raised("Unknown tool", meta, fts)}
    ELSE IF BindRaises(params.name, params.arguments)
    THEN {Raised("TypeError", meta, fts)}
    ELSE IF params.name = "memory_add"
    THEN LET r == tool_memory_add(meta, fts, clock, params.arguments.content,
                                  params.arguments.tags, None, NoteType)
         IN  {Returned(r.meta, r.fts)}
    ELSE IF params.name = "memory_refresh"
    THEN {IF r.raised THEN Raised("PermissionError", r.meta, r.fts)
                      ELSE Returned(r.meta, r.fts) :
             r \in {ToolRefreshResult(params.arguments.path, o, meta, fts, fs, clock) :
                      o \in IF params.arguments.path # None THEN {<<>>}
                            ELSE Orders(DocSources(meta))}}
    ELSE {Returned(meta, fts)}

\* handle_request(request): the response, if any, and the store left
Handled(response, meta, fts) == [response |-> response, meta |-> meta, fts |-> fts]

handle_request(request, meta, fts, fs, clock) ==
    LET method == request.method
        params == request.params
        req_id == request.id
    IN  IF method = "initialize"
        THEN {Handled(<<create_response(req_id, "serverInfo", NoError)>>, meta, fts)}
        ELSE IF method = "notifications/initialized"
        THEN {Handled(<<>>, meta, fts)}
        ELSE IF method = "tools/list"
        THEN {Handled(<<create_response(req_id, "tools", NoError)>>, meta, fts)}
        ELSE IF method = "tools/call"
        THEN {IF c.raised
              THEN Handled(<<create_response(req_id, "",
                               [code |-> -32603, message |-> c.message])>>,
                           c.meta, c.fts)
              ELSE Handled(<<create_response(req_id, "content", NoError)>>,
                           c.meta, c.fts) :
                 c \in handle_tools_call(params, meta, fts, fs, clock)}
        ELSE IF method = "ping"
        THEN {Handled(<<create_response(req_id, "{}", NoError)>>, meta, fts)}
        ELSE {Handled(<<create_response(req_id, "",
                          [code |-> -32601, message |-> "Method not found"])>>,
                      meta, fts)}

\* One pass of the loop of run_server over a line: what is written to
\* stdout, the store left, and whether an exception left the loop. Only
\* json.JSONDecodeError is caught; `request.get` on a value that is not a
\* dict raises AttributeError.
Served(written, crashed, meta, fts) ==
    [written |-> written, crashed |-> crashed, meta |-> meta, fts |-> fts]

ServeLine(line, meta, fts, fs, clock) ==
    IF line.text = "blank"
    THEN {Served(<<>>, FALSE, meta, fts)}
    ELSE IF line.text = "invalid"
    THEN {Served(<<create_response(None, "",
                     [code |-> -32700, message |-> "Parse error"])>>,
                 FALSE, meta, fts)}
    ELSE IF line.value.type # "object"
    THEN {Served(<<>>, TRUE, meta, fts)}
    ELSE {Served(h.response, FALSE, h.meta, h.fts) :
             h \in handle_request(line.value, meta, fts, fs, clock)}

\* the lines read from stdin before it is closed
MaxLines == 2

Serving == [lines |-> 0, stdout |-> <<>>, state |-> "serving"]

InitServer ==
    /\ chunk_meta = {}
    /\ chunks_fts = {}
    /\ files = [p \in Paths |-> AbsentFile]
    /\ now = 0
    /\ conns = [c \in Callers |-> Closed("")]
    /\ server = Serving

\* `for line in sys.stdin:` takes the next line
run_server(line) ==
    /\ server.state = "serving"
    /\ server.lines < MaxLines
    /\ \E s \in ServeLine(line, chunk_meta, chunks_fts, files, now) :
          /\ IdsBounded(s.meta)
          /\ chunk_meta' = s.meta
          /\ chunks_fts' = s.fts
          /\ server' = [lines  |-> server.lines + 1,
                        stdout |-> server.stdout \o s.written,
                        state  |-> IF s.crashed THEN "crashed" ELSE "serving"]
    /\ UNCHANGED <<files, now, conns>>

\* stdin reaches end of file and the loop ends
CloseStdin ==
    /\ server.state = "serving"
    /\ server' = [server EXCEPT !.state = "closed"]
    /\ UNCHANGED <<chunk_meta, chunks_fts, files, now, conns>>

NextServer ==
    \/ WriteFile(P1, DocAB)
    \/ MakeUnreadable(P1)
    \/ Ingest(P1, None)
    \/ \E line \in Lines : run_server(line)
    \/ CloseStdin

SpecServer == InitServer /\ [][NextServer]_vars

(***************************************************************************)
(* Properties. A call's result is the value of its result operator in the  *)
(* state the call is made in, so a property of a call is an invariant that *)
(* ranges over the calls that can be made in each reachable state.         *)
(***************************************************************************)
IsDoc(m) == m.chunk_type = DocType
Contents(fts) == {f.content : f \in fts}
ContentOf(fts, id) == (CHOOSE f \in fts : f.rowid = id).content
FtsOf(fts, id) == {f \in fts : f.rowid = id}
DocRows(meta, source) == {m \in meta : IsDoc(m) /\ m.source = source}

\* the paths a caller may name: the files, and every source in the store
KnownPaths == Paths \cup {m.source : m \in chunk_meta}
CallTags == {None, <<TagT>>}
LaterTimes == {now, now + 1}

\* what refresh(path) of either implementation may return in this state
RefreshResults(path) ==
    UNION {{RefreshResult(path, o, chunk_meta, chunks_fts, files, now),
            ToolRefreshResult(path, o, chunk_meta, chunks_fts, files, now)} :
           o \in IF path # None THEN {<<>>} ELSE Orders(DocSources(chunk_meta))}

\* no file stands at the path
Missing(p) == p \notin Paths \/ ~files[p].exists

\* the chunk contents the chunker produces from the current text of a file
CurrentContents(p) ==
    IF ~Missing(p)
    THEN {DocChunks[files[p].text][k].content : k \in 1..Len(DocChunks[files[p].text])}
    ELSE {}

\* C1: after any sequence of ingest, add and refresh calls no two chunks of the
\* store have the same fingerprint, nor the same content, whatever their kind
\* or source.
C1_FingerprintUnique ==
    /\ \A m1, m2 \in chunk_meta : m1.content_hash = m2.content_hash => m1 = m2
    /\ \A f1, f2 \in chunks_fts : f1.content = f2.content => f1 = f2

\* a note holds the content of a section of P2's file, and P2 has been ingested
\* (its other section is stored), so ingestion met the duplicate
C1_Witness ==
    /\ \E m \in chunk_meta : m.content_hash = _hash_content(SecB) /\ ~IsDoc(m)
    /\ \E m \in chunk_meta : m.content_hash = _hash_content(SecC) /\ m.source = P2
    /\ files[P2].exists /\ files[P2].text = DocBC

\* C2: refresh(p) deletes or creates only chunks of kind doc with source p: every
\* chunk of another kind or another source is in the store unchanged after the
\* call; refresh without a path leaves every chunk of kind other than doc unchanged.
C2_RefreshFrame ==
    /\ \A p \in KnownPaths : \A r \in RefreshResults(p) :
          /\ \A m \in chunk_meta :
                (~IsDoc(m) \/ m.source # p) =>
                    m \in r.meta /\ FtsOf(r.fts, m.id) = FtsOf(chunks_fts, m.id)
          /\ \A m \in r.meta \ chunk_meta : IsDoc(m) /\ m.source = p
    /\ \A r \in RefreshResults(None) :
          /\ \A m \in chunk_meta :
                ~IsDoc(m) => m \in r.meta /\ FtsOf(r.fts, m.id) = FtsOf(chunks_fts, m.id)
          /\ \A m \in r.meta \ chunk_meta : IsDoc(m)

\* a note and a doc chunk share the source P1, another source holds a doc chunk,
\* and refresh(P1) deletes and re-ingests
C2_Witness ==
    /\ \E m \in chunk_meta : m.source = P1 /\ ~IsDoc(m)
    /\ DocRows(chunk_meta, P1) # {}
    /\ DocRows(chunk_meta, P2) # {}
    /\ \E r \in RefreshResults(P1) : r.deleted > 0 /\ r.ingested > 0

\* C3: ingesting the same document twice in a row inserts each of its chunks once:
\* the second ingest returns 0 and leaves the store as the first left it, also
\* when the document has two sections with the same content.
C3_IngestTwice ==
    \A p \in Paths : \A t \in CallTags : \A later \in LaterTimes :
        LET r1 == IngestResult(chunk_meta, chunks_fts, files, now, p, t)
            r2 == IngestResult(r1.meta, r1.fts, files, later, p, t)
        IN  ~r1.raised =>
                /\ ~r2.raised /\ r2.inserted = 0
                /\ r2.meta = r1.meta /\ r2.fts = r1.fts
                /\ \A c \in CurrentContents(p) :
                       Cardinality({f \in r1.fts : f.content = c}) = 1

\* P1's file has two identical sections, none of them stored yet: the first
\* ingest inserts one chunk
C3_Witness ==
    /\ files[P1].exists /\ files[P1].readable /\ files[P1].text = DocAA
    /\ SecA \notin Contents(chunks_fts)
    /\ IngestResult(chunk_meta, chunks_fts, files, now, P1, None).inserted = 1


\* the two results of refresh(path) made in the store st
RefreshOf(path, st) ==
    {RefreshResult(path, <<>>, st.meta, st.fts, files, now),
     ToolRefreshResult(path, <<>>, st.meta, st.fts, files, now)}

\* C4: refreshing a source whose file is unchanged since it was ingested returns
\* deleted = ingested and leaves the set of stored contents as it was, in every
\* reachable state. Stated for the calls ingest(p), refresh(q), refresh(p), made
\* in any reachable state in which p holds no doc chunk yet: the files do not
\* change during the three calls, so p's file is unchanged since it was ingested.
C4_RefreshUnchangedIsNoop ==
    \A p \in Paths : \A q \in Paths \ {p} :
        (~Missing(p) /\ files[p].readable /\ DocRows(chunk_meta, p) = {}) =>
            LET s1 == IngestResult(chunk_meta, chunks_fts, files, now, p, None)
            IN  \A s2 \in RefreshOf(q, s1) :
                    ~s2.raised =>
                        \A r \in RefreshOf(p, s2) :
                            /\ r.deleted = r.ingested
                            /\ Contents(r.fts) = Contents(s2.fts)

\* C5: after refresh(s) completes for a source whose file exists, every doc chunk
\* of s has the content of a chunk of the file's current text, and every chunk
\* content of the current text is in the store.
C5_RefreshRestores ==
    \A p \in Paths :
        ~Missing(p) =>
            \A r \in RefreshResults(p) :
                ~r.raised =>
                    /\ \A m \in DocRows(r.meta, p) :
                           ContentOf(r.fts, m.id) \in CurrentContents(p)
                    /\ \A c \in CurrentContents(p) : c \in Contents(r.fts)

\* P1's file was rewritten without section B while a doc chunk of P1 still holds it
C5_Witness ==
    /\ files[P1].exists /\ files[P1].readable /\ files[P1].text = DocAA
    /\ \E m \in DocRows(chunk_meta, P1) : m.content_hash = _hash_content(SecB)
    /\ \E r \in RefreshResults(P1) : ~r.raised /\ r.deleted = 2 /\ r.ingested = 1

\* C6: refresh(s) of a source whose file is missing deletes every doc chunk of s,
\* re-ingests nothing and returns normally; ingest of a missing file returns 0
\* and leaves the store unchanged.
C6_MissingFile ==
    \A p \in KnownPaths :
        Missing(p) =>
            /\ \A r \in RefreshResults(p) :
                   /\ ~r.raised /\ r.ingested = 0
                   /\ r.deleted = Cardinality(DocRows(chunk_meta, p))
                   /\ DocRows(r.meta, p) = {}
                   /\ r.meta \subseteq chunk_meta /\ r.fts \subseteq chunks_fts
            /\ \A t \in CallTags :
                   LET i == IngestResult(chunk_meta, chunks_fts, files, now, p, t)
                   IN  /\ ~i.raised /\ i.inserted = 0
                       /\ i.meta = chunk_meta /\ i.fts = chunks_fts

\* P1's file is gone while the store still holds doc chunks of P1
C6_Witness ==
    /\ ~files[P1].exists
    /\ DocRows(chunk_meta, P1) # {}
    /\ \E r \in RefreshResults(P1) : r.deleted > 0 /\ r.ingested = 0

\* C7: when a refresh of all sources fails at its k-th source, the sources before
\* it are reconciled (no doc chunk of theirs holds content that is not in their
\* file) and the sources after it hold exactly the doc chunks they had before
\* the call, in DocMemory.refresh and in tool_memory_refresh.
C7_PartialFailure ==
    \A r \in RefreshResults(None) :
        r.raised =>
            /\ \A j \in (r.failed_at + 1)..Len(r.scope) :
                   DocRows(r.meta, r.scope[j]) = DocRows(chunk_meta, r.scope[j])
            /\ \A j \in 1..(r.failed_at - 1) :
                   \A m \in DocRows(r.meta, r.scope[j]) :
                       ContentOf(r.fts, m.id) \in CurrentContents(r.scope[j])

\* C8: refresh with a source given operates on that one identifier and returns
\* sources = 1, also when the source holds no chunk; refresh without a source
\* operates on the sources that hold at least one doc chunk and returns their
\* number; a source that holds only other chunks is never in scope.
C8_RefreshScope ==
    /\ \A p \in KnownPaths : \A r \in RefreshResults(p) :
          /\ r.sources = 1 /\ r.scope = <<p>>
          /\ r.deleted = Cardinality(DocRows(chunk_meta, p))
    /\ \A r \in RefreshResults(None) :
          LET holders == {m.source : m \in {x \in chunk_meta : IsDoc(x)}}
          IN  /\ r.sources = Cardinality(holders)
              /\ {r.scope[j] : j \in 1..Len(r.scope)} = holders
              /\ ~r.raised => r.deleted = Cardinality({x \in chunk_meta : IsDoc(x)})
              /\ \A m \in chunk_meta : m.source \notin holders => m \in r.meta
              /\ \A m \in r.meta \ chunk_meta : m.source \in holders

\* one source holds doc chunks, another source holds only a note, one of the
\* files holds no chunk at all, and refresh of all sources has one source in scope
C8_Witness ==
    /\ \E m \in chunk_meta :
          ~IsDoc(m) /\ DocRows(chunk_meta, m.source) = {}
    /\ \E m \in chunk_meta : IsDoc(m)
    /\ \E p \in Paths : \A m \in chunk_meta : m.source # p
    /\ \E r \in RefreshResults(None) : r.sources = 1 /\ r.deleted > 0

AddContents == {None, Blank, NoteN, SecB}
AddSources == {None, P1}
AddTypes == {NoteType, DocType}

\* what add of either implementation returns in this state
AddResults(c, t, src, k) ==
    {AddResult(chunk_meta, chunks_fts, now, c, t, src, k),
     tool_memory_add(chunk_meta, chunks_fts, now, c, t, src, k)}

WhitespaceOnly(c) == \A i \in 1..Len(c) : c[i] \in Whitespace

\* C9: add with an empty tag list, or with empty or whitespace-only content, is
\* declined with a reason, whatever the other arguments, and the store is
\* unchanged.
C9_AddValidation ==
    \A c \in AddContents, t \in CallTags, src \in AddSources, k \in AddTypes :
        (WhitespaceOnly(c) \/ t = <<>>) =>
            \A r \in AddResults(c, t, src, k) :
                /\ ~r.added /\ r.reason \in {"empty_content", "no_tags"}
                /\ r.meta = chunk_meta /\ r.fts = chunks_fts

\* the store holds chunks, and the declined text is not among them
C9_Witness ==
    /\ chunk_meta # {}
    /\ NoteN \notin Contents(chunks_fts)
    /\ AddResult(chunk_meta, chunks_fts, now, Blank, <<TagT>>, P1, DocType).reason
           = "empty_content"
    /\ AddResult(chunk_meta, chunks_fts, now, NoteN, None, None, NoteType).reason
           = "no_tags"

\* C10: inserting content whose fingerprint is already in the store, through add
\* or as a chunk of an ingested file, is declined or skipped and changes nothing:
\* the existing chunk keeps its source, section, tags, kind and created_at, and
\* no chunk or index entry is created for that content.
C10_DuplicateDeclined ==
    /\ \A c \in Contents(chunks_fts), src \in AddSources, k \in AddTypes :
          \A r \in AddResults(c, <<TagT>>, src, k) :
              /\ ~r.added /\ r.reason = "duplicate"
              /\ r.meta = chunk_meta /\ r.fts = chunks_fts
    /\ \A p \in Paths, t \in CallTags :
          LET r == IngestResult(chunk_meta, chunks_fts, files, now, p, t)
          IN  /\ chunk_meta \subseteq r.meta /\ chunks_fts \subseteq r.fts
              /\ Cardinality(r.meta \ chunk_meta) = r.inserted
              /\ Cardinality(r.fts \ chunks_fts) = r.inserted
              /\ \A f \in r.fts \ chunks_fts : f.content \notin Contents(chunks_fts)

\* section B was stored earlier from P2; later P1's file, which has the same
\* section and a new one, is ingested, and B itself is added
C10_Witness ==
    /\ now > 0
    /\ \E m \in chunk_meta :
          /\ m.content_hash = _hash_content(SecB) /\ m.source = P2 /\ m.created_at < now
    /\ files[P1].exists /\ files[P1].readable /\ files[P1].text = DocAB
    /\ IngestResult(chunk_meta, chunks_fts, files, now, P1, None).inserted = 1
    /\ AddResult(chunk_meta, chunks_fts, now, SecB, <<TagT>>, P1, NoteType).reason
           = "duplicate"

(***************************************************************************)
(* Search and recent                                                       *)
(***************************************************************************)
QWord == <<"a">>
QTwo == <<"z", " ", "b">>
QHash == <<"#", " ", "a">>
QPercent == <<"g", "%", "l">>
QEmpty == <<>>
SearchQueries == {QWord, QTwo, QHash, QPercent, QEmpty}
TagEcs == <<"e", "c", "s">>
SearchTagLists == {<<TagT>>, <<General>>, <<TagT, TagEcs>>}
DefaultLimit == 10
SearchLimits == {1, DefaultLimit}

\* the instants a call may be made at during the current day
Instants == {now * DayParts, now * DayParts + DayParts - 1}

Min(a, b) == IF a < b THEN a ELSE b
Rows(o) == {o.rows[i] : i \in 1..Len(o.rows)}

\* the stored rows whose content or tags contain the query, letters compared
\* whatever their case
SubstringRows(query) ==
    {j \in Joined(chunk_meta, chunks_fts) :
        \/ contains(lower(j.c.content), lower(query))
        \/ contains(lower(j.c.tags), lower(query))}

\* rows are the n most recent members of S, most recent first
RecentTop(rows, S, n) ==
    /\ Len(rows) = Min(n, Cardinality(S))
    /\ \A i \in 1..Len(rows) : rows[i] \in S
    /\ \A i, k \in 1..Len(rows) :
          /\ (i # k => rows[i] # rows[k])
          /\ (i < k => rows[i].m.created_at >= rows[k].m.created_at)
    /\ \A j \in S : \A i \in 1..Len(rows) :
          j \in {rows[k] : k \in 1..Len(rows)} \/ rows[i].m.created_at >= j.m.created_at

\* what a rejected query must return
FallbackAnswer(o, query, n) ==
    /\ ~o.raised
    /\ RecentTop(o.rows, SubstringRows(query), n)
    /\ \A i \in 1..Len(o.rows) : o.relevance[i] = 0

\* C11: for every query the text index rejects, search does not raise; it
\* returns the chunks whose content or tags contain the query string, the most
\* recent first, cut to limit, each with relevance zero.
C11_FallbackSubstring ==
    \A q \in SearchQueries, T \in SearchTagLists \cup {None}, n \in SearchLimits :
        Fts5Rejects(FtsQuery(q, T)) =>
            \A t \in Instants :
                /\ \A o \in SearchOutcomes(chunk_meta, chunks_fts, t, q, T, n) :
                       FallbackAnswer(o, q, n)
                /\ \A o \in ToolSearchOutcomes(chunk_meta, chunks_fts, t, q, T, n) :
                       FallbackAnswer(o, q, n)

\* the tags of a chunk, in lower case
TagSetOf(m) ==
    {lower(split(m.tags, ",")[i]) : i \in 1..Len(split(m.tags, ","))}

\* the words a row holds in any of its columns
WordsOf(c) ==
    UNION {{TokensOf(ColText(c, col))[k] : k \in 1..Len(TokensOf(ColText(c, col)))} :
           col \in ColumnNames}

\* the rows in which a word of the query stands as a word
TermRows(query) ==
    LET terms == {lower(split_ws(query)[i]) : i \in 1..Len(split_ws(query))}
    IN  {j \in Joined(chunk_meta, chunks_fts) : terms \cap WordsOf(j.c) # {}}

\* the rows that carry one of the tags
TagRows(T) ==
    {j \in Joined(chunk_meta, chunks_fts) :
        \E i \in 1..Len(T) : lower(T[i]) \in TagSetOf(j.m)}

\* C12: on the primary path tags widen the match: the rows matched are those
\* that match a word of the query together with those that carry one of the
\* tags, so every row matched without the tags is matched with them, and a call
\* returns min(limit, matched) of them.
C12_TagsWiden ==
    \A q \in SearchQueries, T \in SearchTagLists :
        ~Fts5Rejects(FtsQuery(q, T)) =>
            LET matched == PrimaryRows(chunk_meta, chunks_fts, FtsQuery(q, T))
                plain   == PrimaryRows(chunk_meta, chunks_fts, FtsQuery(q, None))
            IN  /\ matched = TermRows(q) \cup TagRows(T)
                /\ plain \subseteq matched
                /\ TagRows(T) \subseteq matched
                /\ \A n \in SearchLimits :
                       \A s \in {SearchRows(chunk_meta, chunks_fts, q, T, n),
                                 ToolSearchRows(chunk_meta, chunks_fts, q, T, n)} :
                           /\ ~s.raised /\ ~s.fallback
                           /\ \A l \in s.lists :
                                  /\ \A i \in 1..Len(l) : l[i] \in matched
                                  /\ Len(l) = Min(n, Cardinality(matched))

\* a search for "z b" with the tag ecs returns a chunk that holds neither word
\* and carries the tag, next to a chunk that holds b and does not carry it
C12_Witness ==
    /\ ~Fts5Rejects(FtsQuery(QTwo, <<TagT, TagEcs>>))
    /\ \E j \in TagRows(<<TagT, TagEcs>>) \ TermRows(QTwo) :
          \E o \in SearchOutcomes(chunk_meta, chunks_fts, now * DayParts, QTwo,
                                  <<TagT, TagEcs>>, DefaultLimit) : j \in Rows(o)
    /\ \E j \in TermRows(QTwo) \ TagRows(<<TagT, TagEcs>>) :
          \E o \in SearchOutcomes(chunk_meta, chunks_fts, now * DayParts, QTwo,
                                  <<TagT, TagEcs>>, DefaultLimit) : j \in Rows(o)

\* the tags a result shows
ResultTags(r) == {split(r.tags, " ")[i] : i \in 1..Len(split(r.tags, " "))}

\* C13: tags given to the memory_search tool filter the results: every chunk
\* tool_memory_search(query, tags) returns carries one of the tags.
C13_TagsFilter ==
    \A q \in SearchQueries, T \in SearchTagLists, n \in SearchLimits :
        \A o \in ToolSearchOutcomes(chunk_meta, chunks_fts, now * DayParts, q, T, n) :
            \A i \in 1..Len(o.results) :
                \E k \in 1..Len(T) : T[k] \in ResultTags(o.results[i])

\* a search that matches every chunk, and the windows of recent
DefaultDays == 7
RecentDays == {DefaultDays, 100}

\* the instants a call is made at: today, and 90 and 91 days after a chunk was
\* created, at the start and at the end of the day
AgeInstants ==
    Instants \cup {(m.created_at + d) * DayParts + p :
                      m \in chunk_meta, d \in {90, 91}, p \in {0, DayParts - 1}}

\* what a result says about the age of its chunk at instant t
AgeRight(r, t) ==
    LET elapsed == t - r.created_at * DayParts
    IN  /\ r.age_days * DayParts <= elapsed
        /\ elapsed < (r.age_days + 1) * DayParts
        /\ (r.is_stale <=> r.age_days > 90)
        /\ (elapsed >= 90 * DayParts /\ elapsed < 91 * DayParts => ~r.is_stale)
        /\ (elapsed >= 91 * DayParts => r.is_stale)

\* C14: in every result of search and recent, age_days is the number of whole
\* days from created_at to the instant of the call and is_stale is true exactly
\* when age_days > 90 (false at 90 days, true at 91); a stale chunk is returned
\* like any other.
C14_Staleness ==
    \A t \in AgeInstants :
        /\ \A q \in {QWord, QEmpty} :
              /\ \A o \in SearchOutcomes(chunk_meta, chunks_fts, t, q, None, DefaultLimit) :
                     /\ \A i \in 1..Len(o.results) : AgeRight(o.results[i], t)
                     /\ \E o0 \in SearchOutcomes(chunk_meta, chunks_fts, now * DayParts,
                                                 q, None, DefaultLimit) :
                            o0.rows = o.rows
              /\ \A o \in ToolSearchOutcomes(chunk_meta, chunks_fts, t, q, None,
                                             DefaultLimit) :
                     \A i \in 1..Len(o.results) : AgeRight(o.results[i], t)
        /\ \A days \in RecentDays :
              \A o \in RecentOutcomes(chunk_meta, chunks_fts, t, days, DefaultLimit) :
                  /\ \A i \in 1..Len(o.results) : AgeRight(o.results[i], t)
                  /\ Rows(o) = {j \in Joined(chunk_meta, chunks_fts) :
                                   j.m.created_at + days >= t \div DayParts}

\* a chunk is returned fresh at the end of its 90th day and stale, by search and
\* by recent, at the start of its 91st
C14_Witness ==
    \E j \in Joined(chunk_meta, chunks_fts) :
        LET t90 == (j.m.created_at + 90) * DayParts + DayParts - 1
            t91 == (j.m.created_at + 91) * DayParts
        IN  /\ \E o \in SearchOutcomes(chunk_meta, chunks_fts, t90, QEmpty, None,
                                       DefaultLimit) :
                   \E i \in 1..Len(o.rows) :
                       /\ o.rows[i] = j
                       /\ o.results[i].age_days = 90 /\ ~o.results[i].is_stale
            /\ \E o \in SearchOutcomes(chunk_meta, chunks_fts, t91, QEmpty, None,
                                       DefaultLimit) :
                   \E i \in 1..Len(o.rows) :
                       /\ o.rows[i] = j
                       /\ o.results[i].age_days = 91 /\ o.results[i].is_stale
            /\ \E o \in RecentOutcomes(chunk_meta, chunks_fts, t91, 100, DefaultLimit) :
                   \E i \in 1..Len(o.rows) : o.rows[i] = j /\ o.results[i].is_stale


(***************************************************************************)
(* Chunker                                                                 *)
(***************************************************************************)
IsHeadingLine(line) == startswith(line, "#")
HeadingLines(text) == SelectSeq(split(text, "\n"), IsHeadingLine)
DepthOfLine(line) == Cardinality({n \in 1..Len(line) : \A i \in 1..n : line[i] = "#"})
NameOfLine(line) == <<line[Len(line)]>>
\* the headings of a section path "X > Y > Z" of one-letter headings
PathNames(section) == [j \in 1..((Len(section) + 3) \div 4) |-> <<section[4 * j - 3]>>]
PositionOf(heads, name) == CHOOSE k \in 1..Len(heads) : NameOfLine(heads[k]) = name

\* C15: for a document of any heading depths, the section path of the chunk
\* that follows a heading of depth d ends with that heading, and every other
\* entry of the path is an earlier heading of depth less than d.
C15_HeadingStack ==
    files[P1].text \in HeadingDocs =>
        \A m \in chunk_meta :
            (IsDoc(m) /\ m.source = P1) =>
                LET heads == HeadingLines(files[P1].text)
                    first == split(ContentOf(chunks_fts, m.id), "\n")[1]
                    k     == PositionOf(heads, NameOfLine(first))
                    d     == DepthOfLine(first)
                    path  == PathNames(m.section)
                IN  /\ path # <<>>
                    /\ path[Len(path)] = NameOfLine(first)
                    /\ \A j \in 1..(Len(path) - 1) :
                           LET e == PositionOf(heads, path[j])
                           IN  e < k /\ DepthOfLine(heads[e]) < d


\* the sections of a text: each heading line opens one, and the lines before
\* the first heading form one
SectionStarts(lines) ==
    {i \in 1..Len(lines) : i = 1 \/ IsHeadingLine(lines[i])}
SectionAt(lines, i) ==
    LET next == {j \in SectionStarts(lines) : j > i}
        last == IF next = {} THEN Len(lines)
                ELSE (CHOOSE j \in next : \A x \in next : j <= x) - 1
    IN  strip(join(<<"\n">>, SubSeq(lines, i, last)))
\* the trimmed sections in document order
TrimmedSections(text) ==
    LET lines  == split(text, "\n")
        starts == SectionStarts(lines)
        nth(k) == CHOOSE i \in starts : Cardinality({j \in starts : j < i}) = k - 1
    IN  [k \in 1..Cardinality(starts) |-> SectionAt(lines, nth(k))]
LongerThanMin(section) == Len(section) > MinContent
ContentsOfChunks(chunks) == [k \in 1..Len(chunks) |-> chunks[k].content]

\* C16: the chunker emits a chunk for a section exactly when the section's
\* trimmed text is longer than 50 characters, and every chunk that ingest or
\* refresh stored has trimmed content longer than 50 characters.
C16_SizeFilter ==
    /\ \A p \in Paths :
           (FileExists(files, p) /\ ~ReadRaises(files, p)) =>
               LET text == files[p].text
                   r    == IngestResult({}, {}, files, now, p, None)
               IN  /\ ContentsOfChunks(_chunk_document(text, p))
                          = SelectSeq(TrimmedSections(text), LongerThanMin)
                   /\ \A k \in 1..Len(TrimmedSections(text)) :
                          LongerThanMin(TrimmedSections(text)[k])
                              <=> TrimmedSections(text)[k] \in Contents(r.fts)
    /\ \A f \in chunks_fts : Len(strip(f.content)) > MinContent

\* a stored chunk of 51 characters from a file whose other section, of 50
\* characters, left no chunk
C16_Witness ==
    /\ files[P1].text = SizeSection("t", MinContent) \o NL \o SizeSection("u", MinContent + 1)
    /\ Contents(chunks_fts) = {SizeSection("u", MinContent + 1)}
    /\ Len(SizeSection("u", MinContent + 1)) = MinContent + 1


PairedRows == {m.id : m \in chunk_meta} = {f.rowid : f \in chunks_fts}
StoreChanged == chunk_meta' # chunk_meta \/ chunks_fts' # chunks_fts
\* the step stores the whole transaction of c: every chunk its add or ingest
\* inserted, its loop being over, or every deletion of its refresh for the
\* source
WholeTx(c) ==
    /\ conns[c].pc = "commit"
    /\ chunk_meta' = ViewMeta(c)
    /\ chunks_fts' = ViewFts(c)
    /\ conns[c].op \in {"add", "ingest"} =>
           /\ conns[c].k = Len(conns[c].drafts)
           /\ conns[c].meta \subseteq chunk_meta'
           /\ conns[c].fts \subseteq chunks_fts'
           /\ {m.id : m \in conns[c].meta} = {f.rowid : f \in conns[c].fts}
    /\ conns[c].op = "refresh" =>
           \A k \in 1..Len(conns[c].ids) :
               /\ conns[c].ids[k] \notin {m.id : m \in chunk_meta'}
               /\ conns[c].ids[k] \notin {f.rowid : f \in chunks_fts'}

\* C18: what a search, stats or recent call reads while an ingest, add or
\* refresh is running is never a partial write: every metadata row has its
\* index row and the reverse, and the stored tables change only by a whole
\* transaction (all chunks of one ingest, all deletions of one source).
C18_NoDirtyRead ==
    /\ []PairedRows
    /\ [][StoreChanged => \E c \in Callers : WholeTx(c)]_vars

\* an ingest has inserted a metadata row and not yet its index row, and the
\* stored tables hold neither
C18_Witness ==
    \E c \in Callers :
        /\ conns[c].op = "ingest" /\ conns[c].pc = "insert_fts"
        /\ conns[c].meta # {}
        /\ conns[c].meta \cap chunk_meta = {}
        /\ \A m \in conns[c].meta : m.id \notin {f.rowid : f \in chunks_fts}


\* rows of the same id are the same row
SameRows(before, after) ==
    \A r1 \in before, r2 \in after : r1.id = r2.id => r1 = r2
SameIndexRows(before, after) ==
    \A f1 \in before, f2 \in after : f1.rowid = f2.rowid => f1 = f2

\* C19: no statement of ingest, add or refresh changes an existing chunk: a
\* row that is in the store before and after a step has the same content,
\* source, section, tags, kind, fingerprint and created_at, in the stored
\* tables and in the tables as each connection sees them.
C19_NoInPlaceMutation ==
    [][/\ SameRows(chunk_meta, chunk_meta')
       /\ SameIndexRows(chunks_fts, chunks_fts')
       /\ \A c \in Callers :
              /\ SameRows(ViewMeta(c), ViewMeta(c)')
              /\ SameIndexRows(ViewFts(c), ViewFts(c)')]_vars

\* a transaction about to be stored over chunks that stay
C19_Witness ==
    \E c \in Callers :
        /\ conns[c].pc = "commit" /\ InTx(c)
        /\ chunk_meta \cap ViewMeta(c) # {}
        /\ ViewMeta(c) # chunk_meta


(***************************************************************************)
(* Tags                                                                    *)
(***************************************************************************)
TagUpper == <<"I", "n", "f", "r", "a">>
TagEmpty == <<>>
ExplicitTags == {None, <<TagT>>, <<TagUpper>>, <<TagT, TagEmpty>>}
\* a stored tags value: at least one label, each non-empty and lowercase
WellTagged(tags_csv) ==
    /\ tags_csv # <<>>
    /\ \A k \in 1..Len(split(tags_csv, ",")) :
           LET label == split(tags_csv, ",")[k]
           IN  label # <<>> /\ lower(label) = label

\* C20: after any sequence of ingest (with or without explicit tags), add
\* and refresh, every chunk in the store has a non-empty tag set in which
\* every tag is a lowercase label.
C20_TagsLowercase ==
    /\ \A m \in chunk_meta : WellTagged(m.tags)
    /\ \A p \in Paths, T \in ExplicitTags :
           \A m \in IngestResult(chunk_meta, chunks_fts, files, now, p, T).meta :
               WellTagged(m.tags)
    /\ \A T \in ExplicitTags :
           \A m \in AddResult(chunk_meta, chunks_fts, now, NoteN, T, None, NoteType).meta :
               WellTagged(m.tags)
    /\ \A p \in Paths \cup {None} : \A r \in RefreshResults(p) :
           \A m \in r.meta : WellTagged(m.tags)


(***************************************************************************)
(* Kinds                                                                   *)
(***************************************************************************)
DecisionType == <<"d", "e", "c", "i", "s", "i", "o", "n">>
SessionType == <<"s", "e", "s", "s", "i", "o", "n">>
Kinds == {DocType, NoteType, DecisionType, SessionType}
TodoType == <<"t", "o", "d", "o">>
\* the chunk_type arguments callers pass to add
PassedTypes == Kinds \cup {TodoType, <<>>}

\* C21: after any sequence of ingest, add (with any chunk_type argument) and
\* refresh, every chunk in the store has a kind that is one of doc, note,
\* decision or session.
C21_KindClosed ==
    /\ \A m \in chunk_meta : m.chunk_type \in Kinds
    /\ \A k \in PassedTypes :
           /\ \A m \in AddResult(chunk_meta, chunks_fts, now, NoteN, <<TagT>>, None, k).meta :
                  m.chunk_type \in Kinds
           /\ \A m \in tool_memory_add(chunk_meta, chunks_fts, now, NoteN, <<TagT>>, None, k).meta :
                  m.chunk_type \in Kinds


(***************************************************************************)
(* Reconciliation and the chunks around it                                 *)
(***************************************************************************)
\* the results of refresh(path), in both implementations, on a given store
RefreshResultsOn(path, meta, fts) ==
    UNION {{RefreshResult(path, o, meta, fts, files, now),
            ToolRefreshResult(path, o, meta, fts, files, now)} :
           o \in IF path # None THEN {<<>>} ELSE Orders(DocSources(meta))}

\* C22: a chunk created by a successful add, whatever its source and
\* chunk_type arguments, is still in the store after a later refresh of any
\* path or of all sources.
C22_AddSurvivesRefresh ==
    \A a \in AddArgs :
        LET r == AddResult(chunk_meta, chunks_fts, now, a[1], a[2], a[3], a[4])
        IN  r.added =>
                \A p \in Paths \cup {None} :
                    \A q \in RefreshResultsOn(p, r.meta, r.fts) :
                        /\ (r.meta \ chunk_meta) \subseteq q.meta
                        /\ (r.fts \ chunks_fts) \subseteq q.fts


(***************************************************************************)
(* Tag inference                                                           *)
(***************************************************************************)
HintPaths ==
    Paths \cup
    { <<"L", "a", "m", "b", "d", "a">>,
      <<"s", "h", "a", "r", "e", "d", "/", "I", "N", "F", "R", "A", "/",
        "a", "g", "e", "n", "t", "s">>,
      <<"p", "i", "p", "e", "l", "i", "n", "e">>,
      <<>> }
\* the keyword hints, in their fixed order
HintOrder ==
    << <<"i", "n", "f", "r", "a">>, <<"a", "g", "e", "n", "t", "s">>,
       <<"a", "p", "p", "s">>, <<"s", "h", "a", "r", "e", "d">>,
       <<"p", "i", "p", "e", "l", "i", "n", "e", "s">>, <<"e", "c", "s">>,
       <<"l", "a", "m", "b", "d", "a">> >>
\* the hints that occur in the lowercased path, in order, or 'general'
ExpectedTags(path) ==
    LET Occurs(h) == contains(lower(path), h)
        found     == SelectSeq(HintOrder, Occurs)
    IN  IF found = <<>> THEN << <<"g", "e", "n", "e", "r", "a", "l">> >> ELSE found

\* C23: ingest without explicit tags assigns exactly the keyword hints that
\* occur as substrings of the lowercased source path, in their fixed order,
\* and the single tag 'general' when none occurs; the list is never empty.
C23_TagInference ==
    /\ \A path \in HintPaths :
           /\ InferTags(path, None) = ExpectedTags(path)
           /\ InferTags(path, None) # <<>>
    /\ \A p \in Paths :
           /\ \A m \in IngestResult(chunk_meta, chunks_fts, files, now, p, None).meta
                           \ chunk_meta :
                  m.tags = join(<<",">>, ExpectedTags(p))
           /\ \A m \in _ingest_document(chunk_meta, chunks_fts, files, now, p, None).meta
                           \ chunk_meta :
                  m.tags = join(<<",">>, ExpectedTags(p))

\* a chunk ingested from Ecs/apps carries apps and ecs, in the order of the hints
C23_Witness ==
    \E m \in chunk_meta :
        /\ m.source = P2 /\ IsDoc(m)
        /\ m.tags = <<"a", "p", "p", "s", ",", "e", "c", "s">>


(***************************************************************************)
(* The two tables                                                          *)
(***************************************************************************)
\* C24: in every stored state reached by ingest, add and refresh, every
\* chunk_meta row has exactly one chunks_fts row with the same id, source and
\* section, and every chunks_fts row has its chunk_meta row.
C24_TablesPaired ==
    /\ \A m \in chunk_meta :
           /\ Cardinality({f \in chunks_fts : f.rowid = m.id}) = 1
           /\ \A f \in chunks_fts :
                  f.rowid = m.id => f.source = m.source /\ f.section = m.section
    /\ \A f \in chunks_fts : \E m \in chunk_meta : m.id = f.rowid

\* a store holding a doc chunk and a note after a refresh removed another
C24_Witness ==
    /\ \E m \in chunk_meta : IsDoc(m)
    /\ \E m \in chunk_meta : ~IsDoc(m)
    /\ \E i \in 1..MaxId : i \notin {m.id : m \in chunk_meta}
                           /\ \E m \in chunk_meta : m.id > i


\* C25: if a file was ingested with explicit tags and its content is
\* unchanged, then after refresh of that source every regenerated doc chunk
\* carries the tags it had before the refresh.
C25_RefreshKeepsTags ==
    \A p \in Paths :
        LET r == IngestResult(chunk_meta, chunks_fts, files, now, p, <<TagT>>)
        IN  \A q \in RefreshResultsOn(p, r.meta, r.fts) :
                \A m \in r.meta \ chunk_meta :
                    \A n \in q.meta :
                        (n.source = p /\ IsDoc(n) /\ n.content_hash = m.content_hash)
                            => n.tags = m.tags


\* C25 as the code has it: after refresh(p) every doc chunk of source p
\* carries the tags inferred from the path p, whatever tags the file was
\* ingested with.
C25_RefreshInfersTags ==
    \A p \in Paths :
        LET r == IngestResult(chunk_meta, chunks_fts, files, now, p, <<TagT>>)
        IN  \A q \in RefreshResultsOn(p, r.meta, r.fts) :
                \A n \in q.meta :
                    (n.source = p /\ IsDoc(n)) => n.tags = join(<<",">>, ExpectedTags(p))

\* a file that ingest with the tag t stores chunks of, and that a refresh
\* regenerates a chunk of
C25_Witness ==
    \E p \in Paths :
        LET r == IngestResult(chunk_meta, chunks_fts, files, now, p, <<TagT>>)
        IN  /\ \E m \in r.meta \ chunk_meta : m.tags = TagT
            /\ \E q \in RefreshResultsOn(p, r.meta, r.fts) :
                   \E n \in q.meta : n.source = p /\ IsDoc(n) /\ n.tags # TagT


\* C26: if the file of one source is unchanged since that source was
\* ingested, a refresh of another source (its file changed or removed)
\* leaves every chunk content of the unchanged file in the store, a section
\* identical to one the other source used to contain included.
C26_RefreshSparesOthers ==
    \A a \in Paths, b \in Paths :
        (/\ a # b
         /\ FileExists(files, b) /\ ~ReadRaises(files, b)
         /\ CurrentContents(b) \subseteq Contents(chunks_fts)) =>
            \A q \in RefreshResults(a) :
                CurrentContents(b) \subseteq Contents(q.fts)


\* what a refresh leaves, without the row ids and creation times
ChunkView(q) ==
    {[content |-> f.content, source |-> m.source, section |-> m.section,
      tags |-> m.tags, kind |-> m.chunk_type] :
        <<m, f>> \in {x \in q.meta \X q.fts : x[1].id = x[2].rowid}}

\* C27: started from the same store and the same files, and taking the
\* sources in the same order, whichever it is, DocMemory.refresh and tool_memory_refresh return
\* the same deleted, ingested and sources counts and leave the same chunks
\* (content, source, section, tags and kind).
C27_RefreshEquivalent ==
    \A p \in Paths \cup {None} :
        \A o \in (IF p # None THEN {<<>>} ELSE Orders(DocSources(chunk_meta))) :
            LET d == RefreshResult(p, o, chunk_meta, chunks_fts, files, now)
                t == ToolRefreshResult(p, o, chunk_meta, chunks_fts, files, now)
            IN  /\ d.raised = t.raised
                /\ ~d.raised =>
                       /\ d.deleted = t.deleted
                       /\ d.ingested = t.ingested
                       /\ d.sources = t.sources
                /\ ChunkView(d) = ChunkView(t)


\* C28: ingest never removes or alters a stored chunk: the store after
\* ingest(path) contains every row of the store before it, the count it
\* returns is the number of rows it added to each table, and the chunks of
\* an older version of the file stay in the store beside the new ones.
C28_IngestOnlyAdds ==
    \A p \in Paths, t \in CallTags :
        \A r \in {IngestResult(chunk_meta, chunks_fts, files, now, p, t),
                  _ingest_document(chunk_meta, chunks_fts, files, now, p, t)} :
            /\ chunk_meta \subseteq r.meta
            /\ chunks_fts \subseteq r.fts
            /\ r.inserted = Cardinality(r.meta \ chunk_meta)
            /\ r.inserted = Cardinality(r.fts \ chunks_fts)
            /\ \A m \in DocRows(chunk_meta, p) :
                   /\ m \in r.meta
                   /\ ContentOf(r.fts, m.id) = ContentOf(chunks_fts, m.id)

\* a file was ingested, rewritten and ingested again: a chunk of the old
\* version is stored beside a later chunk of the current version
C28_Witness ==
    \E p \in Paths : \E old, new \in DocRows(chunk_meta, p) :
        /\ ~Missing(p)
        /\ old.id < new.id
        /\ FtsOf(chunks_fts, old.id) # {} /\ FtsOf(chunks_fts, new.id) # {}
        /\ ContentOf(chunks_fts, old.id) \notin CurrentContents(p)
        /\ ContentOf(chunks_fts, new.id) \in CurrentContents(p)


\* the methods handle_request answers with a result or with silence
KnownMethods ==
    {"initialize", "notifications/initialized", "tools/list", "tools/call", "ping"}

\* C29: for every request object, handle_request gives exactly one response,
\* with the id of the request and either a result or an error: code -32601
\* exactly when the method is unknown, code -32603 exactly when the tool call
\* raised, a result otherwise; run_server writes that response and nothing
\* else. The method notifications/initialized gets no response at all.
C29_OneResponse ==
    \A req \in Requests :
        LET hs == handle_request(req, chunk_meta, chunks_fts, files, now)
            cs == handle_tools_call(req.params, chunk_meta, chunks_fts, files, now)
        IN  /\ hs # {}
            /\ \A h \in hs :
                   IF req.method = "notifications/initialized"
                   THEN h.response = <<>>
                   ELSE /\ Len(h.response) = 1
                        /\ h.response[1].id = req.id
                        /\ h.response[1].member \in {"result", "error"}
                        /\ (h.response[1].member = "result") <=>
                               (h.response[1].error = NoError /\ h.response[1].result # "")
                        /\ (h.response[1].member = "error") <=>
                               (h.response[1].error.code \in {-32601, -32603}
                                /\ h.response[1].result = "")
                        /\ (h.response[1].error.code = -32601) <=>
                               (req.method \notin KnownMethods)
                        /\ (h.response[1].error.code = -32603) =>
                               /\ req.method = "tools/call"
                               /\ \E c \in cs : c.raised /\ c.meta = h.meta
                                                 /\ c.message = h.response[1].error.message
            /\ req.method = "tools/call" =>
                   \A c \in cs : \E h \in hs :
                       /\ h.meta = c.meta /\ h.fts = c.fts
                       /\ (h.response[1].error.code = -32603) <=> c.raised
            /\ \A s \in ServeLine(JsonLine(req), chunk_meta, chunks_fts, files, now) :
                   /\ ~s.crashed
                   /\ \E h \in hs : s.written = h.response /\ s.meta = h.meta

\* two lines were served: a tools/call of memory_refresh that raised on an
\* unreadable file was answered with -32603 under the request's id, and the
\* other line was answered with nothing
C29_Witness ==
    /\ server.state = "serving"
    /\ server.lines = 2
    /\ Len(server.stdout) = 1
    /\ server.stdout[1].id = <<1>>
    /\ server.stdout[1].error = [code |-> -32603, message |-> "PermissionError"]

\* C30: no stdin line ends the server loop before stdin is closed: a blank
\* line is skipped, invalid JSON is answered with a -32700 parse error whose
\* id is null, and after any line (valid JSON that is not an object, a
\* request with missing or null params) the server is still serving.
C30_ServerSurvives ==
    /\ server.state # "crashed"
    /\ \A s \in ServeLine(BlankLine, chunk_meta, chunks_fts, files, now) :
           s.written = <<>>
    /\ \A s \in ServeLine(InvalidJson, chunk_meta, chunks_fts, files, now) :
           /\ Len(s.written) = 1
           /\ s.written[1].id = None
           /\ s.written[1].error.code = -32700

====
